---------------------------- MODULE Spec2Model ----------------------------
(***************************************************************************)
(* A model of the gossip messaging engine.                                 *)
(*                                                                         *)
(*   Spec     the Node engine (core/node.js: lifecycle, join, sendTo,     *)
(*            sendAll, reply, the router dispatch and the cluster view)   *)
(*   HubSpec  the Hub (core/protocol.js: bind/close, handshake, ack,      *)
(*            reply, sendById, sendAll)                                    *)
(*                                                                         *)
(* The transport library (ZeroMQ) is outside the repository.  Its sockets  *)
(* are modelled by what the code does to them: a socket is open, bound or  *)
(* closed, frames sent on a router socket travel in per-pair FIFO          *)
(* channels, and an operation on a closed socket has no effect.            *)
(***************************************************************************)
EXTENDS Integers, Sequences, FiniteSets, TLC

(***************************************************************************)
(* Bounds of the model.                                                    *)
(***************************************************************************)
MaxMsgs == 2        \* messages one node's factory builds in a behaviour
MaxQueue == 2       \* join calls queued before start
HubMaxMsgs == 3     \* messages one hub's factory builds in a behaviour
MaxTicks == 1       \* callbacks of one hub waiting in process.nextTick
MaxTime == 2000     \* milliseconds of the registry's clock
MaxListeners == 3   \* listeners of one type on one node
MaxReceived == 5    \* messages one stream is handed

(***************************************************************************)
(* Program constants.                                                      *)
(***************************************************************************)
STOPPED == 0
STARTED == 1
JOINING == 2
JOINED == 3
READY == 4

\* A message id is the pair of the factory's owner and a serial number: ids
\* of one factory are fresh, and two factories never produce the same id.
\* Undefined is the key a JavaScript object gives to `undefined`.
Undefined == <<"", 0>>

Nodes == {"A", "B", "C"}
\* The inputs: the users of A and B start and stop their nodes, the user of A
\* also calls join, sendTo and sendAll; C is a node that is never started.
Running == {"A", "B"}
Callers == {"A"}
Targets == {"B", "C"}
AppTypes == {"work"}
InternalTypes == {"_join", "_reply", "_connect", "_ka", "_leave"}
Types == InternalTypes \cup AppTypes

NoData == [k |-> "none"]
NoErr == "null"
ErrNoSuchNode == "no such node"
ErrNobodyCares == "nobody cares about that message type"

(***************************************************************************)
(* Generic helper on finite maps.                                         *)
(***************************************************************************)
Put(f, k, v) == [x \in (DOMAIN f) \cup {k} |-> IF x = k THEN v ELSE f[x]]

(***************************************************************************)
(* Node engine: state.                                                     *)
(***************************************************************************)
VARIABLES
  state,          \* node -> _state
  sockets,        \* node -> "open" | "bound" | "closed" (router, pub and sub)
  messages,       \* node -> the types in this.messages (the advertised types)
  listeners,      \* node -> type -> the listeners of _msgEmitter, in order
  cluster,        \* node -> _cluster, the descriptors in insertion order
  clusterByMsg,   \* node -> _clusterByMsg: type -> list of peer objects (ids)
  connectedTo,    \* node -> _connectedTo
  clusterKeepalive, \* node -> _clusterKeepalive: peer id -> deadline (ms)
  routerConn,     \* node -> endpoints the router socket is connected to
  subConn,        \* node -> endpoints the sub socket is connected to
  pendingReplies, \* node -> _pendingReplies: message id -> handlers
  connectQueue,   \* node -> _connectQueue
  pubQueue,       \* node -> _pubQueue
  shouldQueuePub, \* node -> _shouldQueuePub
  pubTimer,       \* node -> the timeout of line 125: "armed" | "fired"
  net,            \* <<src, dst>> -> router frames in flight, FIFO
  nextId,         \* node -> serial of the next id its factory generates
  ev              \* what the last operation did (calls, callbacks, sends)

nvars == <<state, sockets, messages, listeners, cluster, clusterByMsg,
           connectedTo, clusterKeepalive, routerConn, subConn, pendingReplies, connectQueue,
           pubQueue, shouldQueuePub, pubTimer, net, nextId, ev>>

(***************************************************************************)
(* Hub: state.                                                             *)
(***************************************************************************)
VARIABLES
  hubState,        \* hub -> state of _machine: "CLOSED" | "BOUND"
  hubSockets,      \* hub -> which of routerSocket, pubSocket, subSocket are open
  hubPruner,       \* hub -> whether the interval of _startAckPruner is running
  connectedHubs,   \* hub -> the keys of _connectedHubs
  routerEndpoints, \* hub -> the keys of _connectedRouterEndpoints
  subEndpoints,    \* hub -> the keys of _connectedSubEndpoints
  pendingAcks,     \* hub -> the keys of _pendingAcks
  acksByTime,      \* hub -> _pendingAcksByTime
  hubReplies,      \* hub -> _pendingReplies: message id -> handlers
  ticks,           \* hub -> the callbacks it handed to process.nextTick
  routerNet,       \* <<src, dst>> -> frames on the way to dst's router socket
  subNet,          \* <<src, dst>> -> frames on the way to dst's sub socket
  hubNextId,       \* hub -> serial of the next id its factory generates
  broadcasts,      \* hub -> the sendAll calls it made: message id and callback
  hev              \* what the last hub operation did

hvars == <<hubState, hubSockets, hubPruner, connectedHubs, routerEndpoints, subEndpoints, pendingAcks,
           acksByTime, hubReplies, ticks, routerNet, subNet, hubNextId,
           broadcasts, hev>>

\* The registry (src/core/registry.js).
VARIABLES
  regMap,          \* the registry's _map
  regNow,          \* utils.currentTime(), in milliseconds
  rev              \* the last registry operation and what it did

rvars == <<regMap, regNow, rev>>

\* The message streams (src/unnamed/part_002).
VARIABLES
  streamState,     \* stream -> state: 0 ready, 1 flowing, 2 closed
  received,        \* stream -> received
  sev              \* the last stream operation and the events it emitted

svars == <<streamState, received, sev>>

\* The cluster data structure (src/unnamed/part_005).
VARIABLES
  idIndex,         \* _idIndex: node id -> the types of node.hub.messages
  typeIndex,       \* _messageTypeIndex: type -> the ids filed under it
  cev              \* the last operation on the cluster and whether it threw

cvars == <<idIndex, typeIndex, cev>>

vars == <<nvars, hvars, rvars, svars, cvars>>

(***************************************************************************)
(* Descriptors and messages.                                               *)
(***************************************************************************)
RouterEndpoint(id) == <<"router", id>>
PubEndpoint(id) == <<"pub", id>>

\* this.keepalive.period: options.keepalive.period, or 1000 when the option is
\* not given (the users of B and C give 500 and 300).
DefaultKeepalive == 1000
KeepalivePeriod(id) ==
  IF id = "B" THEN 500 ELSE IF id = "C" THEN 300 ELSE DefaultKeepalive

Descriptor(id, msgs) ==
  [id |-> id, router |-> RouterEndpoint(id), pub |-> PubEndpoint(id),
   keepalive |-> KeepalivePeriod(id), messages |-> msgs]

InCluster(c, id) == \E i \in DOMAIN c : c[i].id = id
Idx(c, id) == CHOOSE i \in DOMAIN c : c[i].id = id

\* The per-node state an operation works on, with what it has output so far.
Local(n) ==
  [state |-> state[n], sockets |-> sockets[n], messages |-> messages[n],
   listeners |-> listeners[n], cluster |-> cluster[n],
   byMsg |-> clusterByMsg[n], connectedTo |-> connectedTo[n],
   keepalive |-> clusterKeepalive[n], now |-> regNow,
   routerConn |-> routerConn[n], subConn |-> subConn[n],
   pending |-> pendingReplies[n], queue |-> connectQueue[n],
   pubQueue |-> pubQueue[n], shouldQueuePub |-> shouldQueuePub[n],
   timer |-> pubTimer[n],
   nid |-> nextId[n],
   out |-> <<>>, pubs |-> <<>>, cbs |-> <<>>, calls |-> <<>>,
   emitted |-> <<>>, threw |-> FALSE]

getInfo(L, self) == Descriptor(self, L.messages)

NoHandler == [kind |-> "none", cb |-> "", seed |-> "", peer |-> "", arity |-> 0]
UserHandler(cb, arity) ==
  [kind |-> "user", cb |-> cb, seed |-> "", peer |-> "", arity |-> arity]


(***************************************************************************)
(* Node engine: cluster view.                                              *)
(***************************************************************************)
\* _connectRouter / _connectSub: connect the socket to the endpoint.
connectRouter(L, endpoint) == [L EXCEPT !.routerConn = @ \cup {endpoint}]
connectSub(L, endpoint) == [L EXCEPT !.subConn = @ \cup {endpoint}]
disconnectRouter(L, endpoint) == [L EXCEPT !.routerConn = @ \ {endpoint}]
disconnectSub(L, endpoint) == [L EXCEPT !.subConn = @ \ {endpoint}]

\* The type index after `node` has been pushed under each type it advertises.
\* indexOf(node) compares object identity: the descriptor handed in is a fresh
\* object (getInfo() or a parsed message), so it is never found and is pushed.
PushByMsg(byMsg, node) ==
  [t \in (DOMAIN byMsg) \cup node.messages |->
     IF t \in node.messages
       THEN Append(IF t \in DOMAIN byMsg THEN byMsg[t] ELSE <<>>, node.id)
       ELSE byMsg[t]]

\* _addNodeToCluster without the test of lines 632-634.
addNodeToClusterAny(L, self, node) ==
  IF L.threw THEN L
  ELSE IF ~InCluster(L.cluster, node.id)
    THEN LET L1 == connectSub(connectRouter(L, node.router), node.pub)
         IN [L1 EXCEPT !.connectedTo = @ \cup {node.id},
                       !.cluster = Append(@, node),
                       !.byMsg = PushByMsg(@, node),
                       !.keepalive = Put(@, node.id, L.now + node.keepalive)]
    ELSE [L EXCEPT !.cluster[Idx(L.cluster, node.id)].messages =
                      @ \cup node.messages,
                   !.cluster[Idx(L.cluster, node.id)].keepalive = node.keepalive,
                   !.byMsg = PushByMsg(@, node),
                   !.keepalive = Put(@, node.id, L.now + node.keepalive)]

\* Node.prototype._addNodeToCluster
addNodeToCluster(L, self, node) ==
  IF L.threw \/ self = node.id THEN L
  ELSE IF ~InCluster(L.cluster, node.id)
    THEN LET L1 == connectSub(connectRouter(L, node.router), node.pub)
         IN [L1 EXCEPT !.connectedTo = @ \cup {node.id},
                       !.cluster = Append(@, node),
                       !.byMsg = PushByMsg(@, node),
                       !.keepalive = Put(@, node.id, L.now + node.keepalive)]
    ELSE [L EXCEPT !.cluster[Idx(L.cluster, node.id)].messages =
                      @ \cup node.messages,
                   !.cluster[Idx(L.cluster, node.id)].keepalive = node.keepalive,
                   !.byMsg = PushByMsg(@, node),
                   !.keepalive = Put(@, node.id, L.now + node.keepalive)]

\* Node.prototype._removeNodeFromCluster.  The type-index loop calls
\* this._clusterByMsg.indexOf, which a plain object does not have, and the
\* method then calls this._disconnectNode, which the class does not define:
\* for a known peer the call throws after the disconnects (and, when the peer
\* advertises no type, after the two deletes) and never deletes the record.
removeNodeFromCluster(L, self, id) ==
  IF L.threw \/ ~InCluster(L.cluster, id) THEN L
  ELSE LET node == L.cluster[Idx(L.cluster, id)]
           L1 == disconnectSub(disconnectRouter(L, node.router), node.pub)
       IN IF node.messages # {}
            THEN [L1 EXCEPT !.threw = TRUE]
            ELSE [L1 EXCEPT !.connectedTo = @ \ {id},
                            !.keepalive = [k \in (DOMAIN @) \ {id} |-> @[k]],
                            !.threw = TRUE]

(***************************************************************************)
(* Node engine: sending.                                                   *)
(***************************************************************************)
\* MessageFactory.prototype.build with the node's defaults (fresh id, src).
build(L, self, dest, type, parent, data) ==
  [id |-> <<self, L.nid>>, src |-> self, dest |-> dest, type |-> type,
   parent |-> parent, data |-> data]

\* Node.prototype._addReplyHandler, on the table alone.
addReplyHandler(pending, key, h) ==
  Put(pending, key, Append(IF key \in DOMAIN pending THEN pending[key] ELSE <<>>, h))

\* Node.prototype._sendRouter
sendRouter(L, to, msg) == [L EXCEPT !.out = Append(@, [to |-> to, msg |-> msg])]

\* Node.prototype._sendPub
sendPub(L, msg) ==
  IF L.shouldQueuePub
    THEN [L EXCEPT !.pubQueue = Append(@, msg)]
    ELSE [L EXCEPT !.pubs = Append(@, msg)]

\* Node.prototype._clearPubQueue, run on the object `T` it is called on.
RECURSIVE flushPubQueue(_, _)
flushPubQueue(T, i) ==
  IF i > Len(T.pubQueue) THEN T
  ELSE flushPubQueue(sendPub(T, T.pubQueue[i]), i + 1)

clearPubQueue(T) ==
  IF T.shouldQueuePub
    THEN flushPubQueue([T EXCEPT !.shouldQueuePub = FALSE], 1)
    ELSE T

\* The `this` of a function handed to setTimeout unbound: the Timeout object,
\* which has no _shouldQueuePub (undefined, falsy) and no _pubQueue.
TimeoutThis == [shouldQueuePub |-> FALSE, pubQueue |-> <<>>, pubs |-> <<>>]

\* The timeout of line 125 expires: setTimeout(this._clearPubQueue, 200)
\* calls the method on the Timeout object, whatever it does is done to that
\* object, and the node keeps its fields.
onPubTimeout(L) ==
  LET T == clearPubQueue(TimeoutThis)
  IN [L EXCEPT !.timer = "fired", !.pubs = T.pubs]

CallCb(L, cb, err, reply) ==
  [L EXCEPT !.cbs = Append(@, [cb |-> cb, err |-> err, reply |-> reply])]

\* A handler called with an error: the user's callback, the callback join()
\* passes to sendTo (lines 213-216), the one it passes for a _connect
\* (lines 234-237, which calls the undefined _disconnectNode), or the
\* logging callbacks of _onJoin and _onConnect.
InvokeErr(L, self, h, err) ==
  IF L.threw THEN L
  ELSE IF h.kind = "user" THEN CallCb(L, h.cb, err, Undefined)
  ELSE IF h.kind = "join"
    THEN LET L1 == removeNodeFromCluster(L, self, h.seed)
         IN IF L1.threw THEN L1 ELSE CallCb(L1, h.cb, err, Undefined)
  ELSE IF h.kind = "connect" THEN [L EXCEPT !.threw = TRUE]
  ELSE [L EXCEPT !.calls = Append(@, "_logError")]

\* sendTo without the test of lines 350-352.
sendToUnguarded(L, self, id, type, data, h) ==
  LET msg == build(L, self, id, type, Undefined, data)
      L1 == [L EXCEPT !.nid = @ + 1]
      L2 == IF h.arity = 2
              THEN [L1 EXCEPT !.pending = addReplyHandler(@, msg.id, h)]
              ELSE L1
  IN sendRouter(L2, id, msg)

\* Node.prototype.sendTo, called with four arguments.
sendTo(L, self, id, type, data, h) ==
  IF L.threw THEN L
  ELSE IF ~InCluster(L.cluster, id) THEN InvokeErr(L, self, h, ErrNoSuchNode)
  ELSE LET msg == build(L, self, id, type, Undefined, data)
           L1 == [L EXCEPT !.nid = @ + 1]
           L2 == IF h.arity = 2
                   THEN [L1 EXCEPT !.pending = addReplyHandler(@, msg.id, h)]
                   ELSE L1
       IN sendRouter(L2, id, msg)

\* utils.randRange(a, b) with two arguments: Math.floor(a + Math.random() * b),
\* any one of these integers.
randRange(a, b) == IF b = 0 THEN {a} ELSE a..(a + b - 1)

\* send without the test of lines 327-329.
sendUnguarded(L, self, type, data, h, r) ==
  sendTo(L, self, ToString(r), type, data, h)

\* Node.prototype.send; r is the number randRange returned.  The number is
\* handed to sendTo as the id, where it is used as a property key of _cluster.
send(L, self, type, data, h, r) ==
  IF type \notin DOMAIN L.byMsg THEN InvokeErr(L, self, h, ErrNobodyCares)
  ELSE sendTo(L, self, ToString(r), type, data, h)

\* Node.prototype.sendAll.  _addReplyHandler is handed the Message object,
\* whose `id` property is undefined (the id is in its body).
sendAll(L, self, type, data, h) ==
  LET msg == build(L, self, "_all", type, Undefined, data)
      L1 == [L EXCEPT !.nid = @ + 1]
      L2 == IF h.kind # "none"
              THEN [L1 EXCEPT !.pending = addReplyHandler(@, Undefined, h)]
              ELSE L1
  IN sendPub(L2, msg)

\* Node.prototype.reply, called with three arguments.
reply(L, self, origMsg, data, h) ==
  IF L.threw THEN L
  ELSE IF ~InCluster(L.cluster, origMsg.src)
    THEN InvokeErr(L, self, h, ErrNoSuchNode)
  ELSE LET msg == build(L, self, origMsg.src, "_reply", origMsg.id, data)
           L1 == [L EXCEPT !.nid = @ + 1]
           L2 == IF h.arity = 2
                   THEN [L1 EXCEPT !.pending = addReplyHandler(@, msg.id, h)]
                   ELSE L1
       IN sendRouter(L2, origMsg.src, msg)

(***************************************************************************)
(* Node engine: join and the protocol handlers.                            *)
(***************************************************************************)
JoinHandler(seed, cb) ==
  [kind |-> "join", cb |-> cb, seed |-> seed, peer |-> "", arity |-> 2]
ConnectHandler(seed, peer) ==
  [kind |-> "connect", cb |-> "", seed |-> seed, peer |-> peer, arity |-> 2]
\* The error-logging callbacks of _onJoin and _onConnect: function (err).
LogHandler == [kind |-> "log", cb |-> "", seed |-> "", peer |-> "", arity |-> 1]

InfoData(d) == [k |-> "info", info |-> d]
ViewData(c, me) == [k |-> "view", cluster |-> c, me |-> me]

\* Node.prototype.join
join(L, self, node, cb) ==
  IF L.state = STOPPED
    THEN [L EXCEPT !.queue = Append(@, [node |-> node, cb |-> cb])]
    ELSE LET L1 == addNodeToCluster(L, self, node)
         IN sendTo(L1, self, node.id, "_join", InfoData(getInfo(L1, self)),
                   JoinHandler(node.id, cb))

\* The forEach of join with the sendTo of lines 234-243 left out.
RECURSIVE contactClusterNoSend(_, _, _, _, _, _)
contactClusterNoSend(L, self, h, data, others, i) ==
  IF i > Len(others) THEN L
  ELSE IF others[i].id = self
    THEN contactClusterNoSend(L, self, h, data, others, i + 1)
    ELSE contactClusterNoSend(addNodeToCluster(L, self, others[i]), self, h,
                              data, others, i + 1)

\* Node.prototype.join lines 223-243: the forEach over the returned cluster.
RECURSIVE contactCluster(_, _, _, _, _, _)
contactCluster(L, self, h, data, others, i) ==
  IF i > Len(others) THEN L
  ELSE IF others[i].id = self
    THEN contactCluster(L, self, h, data, others, i + 1)
    ELSE LET L1 == addNodeToCluster(L, self, others[i])
             L2 == sendTo(L1, self, others[i].id, "_connect", data,
                          ConnectHandler(h.seed, others[i].id))
         IN contactCluster(L2, self, h, data, others, i + 1)

\* The handlers called with (null, body), the one of join without its
\* `return cb(null)` of line 245.
InvokeReplySilent(L, self, h, body) ==
  IF L.threw THEN L
  ELSE IF h.kind = "user" THEN CallCb(L, h.cb, NoErr, body.id)
  ELSE IF h.kind = "join"
    THEN LET L1 == addNodeToCluster(L, self, body.data.me)
         IN contactCluster(L1, self, h, InfoData(getInfo(L1, self)),
                           body.data.cluster, 1)
  ELSE IF h.kind = "connect" THEN addNodeToCluster(L, self, body.data.info)
  ELSE L

\* A pending-reply handler called with (null, body).
InvokeReply(L, self, h, body) ==
  IF L.threw THEN L
  ELSE IF h.kind = "user" THEN CallCb(L, h.cb, NoErr, body.id)
  ELSE IF h.kind = "join"
    THEN IF body.data.k # "view" THEN [L EXCEPT !.threw = TRUE]
         ELSE LET L1 == addNodeToCluster(L, self, body.data.me)
                  L2 == contactCluster(L1, self, h, InfoData(getInfo(L1, self)),
                                       body.data.cluster, 1)
              IN IF L2.threw THEN L2 ELSE CallCb(L2, h.cb, NoErr, Undefined)
  ELSE IF h.kind = "connect"
    THEN IF body.data.k # "info" THEN [L EXCEPT !.threw = TRUE]
         ELSE addNodeToCluster(L, self, body.data.info)
  ELSE L

RECURSIVE InvokeAll(_, _, _, _, _)
InvokeAll(L, self, hs, body, i) ==
  IF i > Len(hs) THEN L
  ELSE InvokeAll(InvokeReply(L, self, hs[i], body), self, hs, body, i + 1)

\* Node.prototype._onReply
onReply(L, self, body) ==
  IF body.parent \notin DOMAIN L.pending THEN L
  ELSE InvokeAll(L, self, L.pending[body.parent], body, 1)

\* Node.prototype._onJoin
onJoin(L, self, body) ==
  IF body.data.k # "info" THEN [L EXCEPT !.threw = TRUE]
  ELSE LET L1 == addNodeToCluster(L, self, body.data.info)
       IN reply(L1, self, body, ViewData(L1.cluster, getInfo(L1, self)), LogHandler)

\* Node.prototype._onConnect
onConnect(L, self, body) ==
  IF body.data.k # "info" THEN [L EXCEPT !.threw = TRUE]
  ELSE LET data == InfoData(getInfo(L, self))
           L1 == addNodeToCluster(L, self, body.data.info)
       IN reply(L1, self, body, data, LogHandler)

\* Node.prototype._onLeave: its first statement calls this._disconnectNode,
\* which the class does not define.
onLeave(L, self, body) == [L EXCEPT !.threw = TRUE]

\* _onKeepalive with the receiver's own period in place of the sender's.
onKeepaliveOwnPeriod(L, self, msg) ==
  IF ~InCluster(L.cluster, msg.src) THEN [L EXCEPT !.threw = TRUE]
  ELSE [L EXCEPT !.keepalive = Put(@, msg.src, L.now + KeepalivePeriod(self))]

\* Node.prototype._onKeepalive: this._cluster[id] is undefined for a sender
\* that is not in the view, and reading its keepalive throws.
onKeepalive(L, self, msg) ==
  IF ~InCluster(L.cluster, msg.src) THEN [L EXCEPT !.threw = TRUE]
  ELSE [L EXCEPT !.keepalive =
          Put(@, msg.src, L.now + L.cluster[Idx(L.cluster, msg.src)].keepalive)]

\* One listener of _msgEmitter called with the message body.
RunListener(L, self, fn, body) ==
  IF L.threw THEN L
  ELSE IF fn = "_onJoin" THEN onJoin(L, self, body)
  ELSE IF fn = "_onReply" THEN onReply(L, self, body)
  ELSE IF fn = "_onConnect" THEN onConnect(L, self, body)
  ELSE IF fn = "_onLeave" THEN onLeave(L, self, body)
  ELSE IF fn = "_onKeepalive" THEN onKeepalive(L, self, body)
  ELSE L

RECURSIVE emit(_, _, _, _, _)
emit(L, self, fns, body, i) ==
  IF i > Len(fns) THEN L
  ELSE emit(RunListener(L, self, fns[i], body), self, fns, body, i + 1)

\* Node.prototype._onRouterMessage
onRouterMessage(L, self, body) ==
  IF body.type \in L.messages
    THEN emit(L, self, L.listeners[body.type], body, 1)
    ELSE L

(***************************************************************************)
(* Node engine: lifecycle.                                                 *)
(***************************************************************************)
\* Node.prototype.on for one type (the policy {period, attempts} is not kept).
on(L, type, fn) ==
  [L EXCEPT !.listeners[type] = Append(@, fn), !.messages = @ \cup {type}]

\* EventEmitter.prototype.removeListener with every instance of the listener
\* removed instead of one.
removeListenerAll(fns, fn) == SelectSeq(fns, LAMBDA f : f # fn)

\* EventEmitter.prototype.removeListener: removes the most recently added
\* instance of the listener, if there is one.
removeListener(fns, fn) ==
  IF \E i \in DOMAIN fns : fns[i] = fn
    THEN LET k == CHOOSE i \in DOMAIN fns :
                    fns[i] = fn /\ \A j \in DOMAIN fns : fns[j] = fn => j <= i
         IN SubSeq(fns, 1, k - 1) \o SubSeq(fns, k + 1, Len(fns))
    ELSE fns

\* off(msgType, cb) with the type withdrawn whatever listeners remain.
offWithdraw(L, type, fn) ==
  [L EXCEPT !.listeners[type] = removeListener(@, fn), !.messages = @ \ {type}]

\* Node.prototype.off(msgType, cb)
off(L, type, fn) ==
  LET L1 == [L EXCEPT !.listeners[type] = removeListener(@, fn)]
  IN IF L1.listeners[type] = <<>> THEN [L1 EXCEPT !.messages = @ \ {type}] ELSE L1

\* Node.prototype.off(msgType)
offType(L, type) ==
  [L EXCEPT !.listeners[type] = <<>>, !.messages = @ \ {type}]

\* Node.prototype._initListeners
initListeners(L) ==
  LET L1 == [L EXCEPT !.calls = Append(@, "_initListeners")]
  IN on(on(on(on(on(L1, "_join", "_onJoin"), "_reply", "_onReply"),
        "_connect", "_onConnect"), "_ka", "_onKeepalive"), "_leave", "_onLeave")

\* Node.prototype._initSockets: binds the router and pub sockets.
initSockets(L) ==
  [L EXCEPT !.calls = Append(@, "_initSockets"),
            !.sockets = IF @ = "open" THEN "bound" ELSE @]

\* Node.prototype._closeSockets
closeSockets(L) ==
  [L EXCEPT !.calls = Append(@, "_closeSockets"), !.sockets = "closed"]

\* Node.prototype.off with no argument.
offAll(L) ==
  [L EXCEPT !.calls = Append(@, "off"),
            !.listeners = [t \in Types |-> <<>>], !.messages = {}]

\* _drainConnectQueue without the recursive call of lines 610-612.
drainConnectQueueOnce(L, self) ==
  IF L.queue = <<>> THEN L
  ELSE LET args == Head(L.queue)
       IN join([L EXCEPT !.queue = Tail(@)], self, args.node, args.cb)

\* Node.prototype._drainConnectQueue
RECURSIVE drainConnectQueue(_, _)
drainConnectQueue(L, self) ==
  IF L.queue = <<>> THEN L
  ELSE LET args == Head(L.queue)
           L1 == join([L EXCEPT !.queue = Tail(@)], self, args.node, args.cb)
       IN IF L1.threw \/ L1.queue = <<>> THEN L1 ELSE drainConnectQueue(L1, self)

\* start without the state test of line 145.
startUnguarded(L, self) ==
  LET L1 == initListeners(initSockets(L))
      L2 == [L1 EXCEPT !.state = STARTED, !.emitted = Append(@, "started")]
  IN IF L2.queue # <<>> THEN drainConnectQueue(L2, self) ELSE L2

\* Node.prototype.start
start(L, self) ==
  IF L.state = STOPPED
    THEN LET L1 == initListeners(initSockets(L))
             L2 == [L1 EXCEPT !.state = STARTED, !.emitted = Append(@, "started")]
         IN IF L2.queue # <<>> THEN drainConnectQueue(L2, self) ELSE L2
    ELSE L

\* stop without the state test of line 170.
stopUnguarded(L, self) ==
  LET L1 == offAll(closeSockets(L))
  IN [L1 EXCEPT !.state = STOPPED, !.emitted = Append(@, "stopped")]

\* Node.prototype.stop
stop(L, self) ==
  IF L.state # STOPPED
    THEN LET L1 == offAll(closeSockets(L))
         IN [L1 EXCEPT !.state = STOPPED, !.emitted = Append(@, "stopped")]
    ELSE L

(***************************************************************************)
(* Node engine: the operations as actions.                                 *)
(***************************************************************************)
NoMsg ==
  [id |-> Undefined, src |-> "", dest |-> "", type |-> "",
   parent |-> Undefined, data |-> NoData]

FramesTo(out, dst) ==
  LET sel == SelectSeq(out, LAMBDA f : f.to = dst)
  IN [i \in DOMAIN sel |-> sel[i].msg]

\* The transport: a frame sent on an open router socket to a bound peer is
\* queued behind the earlier frames for that peer; closing the sockets
\* discards what was still queued for the node.
Transmit(n, L, chan) ==
  [p \in Nodes \X Nodes |->
     IF p[2] = n /\ L.sockets = "closed" THEN <<>>
     ELSE IF p[1] = n /\ L.sockets # "closed" /\ p[2] # n /\ sockets[p[2]] = "bound"
       THEN chan[p] \o FramesTo(L.out, p[2])
       ELSE chan[p]]

Commit(n, L, op, id, cb, msg, chan) ==
  /\ L.nid <= MaxMsgs + 1
  /\ state' = [state EXCEPT ![n] = L.state]
  /\ sockets' = [sockets EXCEPT ![n] = L.sockets]
  /\ messages' = [messages EXCEPT ![n] = L.messages]
  /\ listeners' = [listeners EXCEPT ![n] = L.listeners]
  /\ cluster' = [cluster EXCEPT ![n] = L.cluster]
  /\ clusterByMsg' = [clusterByMsg EXCEPT ![n] = L.byMsg]
  /\ connectedTo' = [connectedTo EXCEPT ![n] = L.connectedTo]
  /\ clusterKeepalive' = [clusterKeepalive EXCEPT ![n] = L.keepalive]
  /\ routerConn' = [routerConn EXCEPT ![n] = L.routerConn]
  /\ subConn' = [subConn EXCEPT ![n] = L.subConn]
  /\ pendingReplies' = [pendingReplies EXCEPT ![n] = L.pending]
  /\ connectQueue' = [connectQueue EXCEPT ![n] = L.queue]
  /\ pubQueue' = [pubQueue EXCEPT ![n] = L.pubQueue]
  /\ shouldQueuePub' = [shouldQueuePub EXCEPT ![n] = L.shouldQueuePub]
  /\ pubTimer' = [pubTimer EXCEPT ![n] = L.timer]
  /\ nextId' = [nextId EXCEPT ![n] = L.nid]
  /\ net' = Transmit(n, L, chan)
  /\ ev' = [op |-> op, node |-> n, id |-> id, cb |-> cb, msg |-> msg,
            calls |-> L.calls, cbs |-> L.cbs, sent |-> L.out, pubs |-> L.pubs,
            emitted |-> L.emitted, threw |-> L.threw]
  /\ UNCHANGED <<hvars, rvars, svars, cvars>>

\* node.start()
Start(n) == Commit(n, start(Local(n), n), "start", "", "", NoMsg, net)

\* node.stop()
Stop(n) == Commit(n, stop(Local(n), n), "stop", "", "", NoMsg, net)

\* node.join(other, cb), other a Node: join() takes other.getInfo().
Join(n, m, cb) ==
  /\ state[n] = STOPPED => Len(connectQueue[n]) < MaxQueue
  /\ Commit(n, join(Local(n), n, Descriptor(m, messages[m]), cb),
            "join", m, cb, NoMsg, net)

\* node.sendTo(id, type, data, cb), cb taking `arity` arguments.
SendTo(n, id, type, cb, arity) ==
  Commit(n, sendTo(Local(n), n, id, type, NoData, UserHandler(cb, arity)),
         "sendTo", id, cb, NoMsg, net)

\* node.sendAll(type, data, cb), and node.sendAll(type, data).
SendAll(n, type, h) ==
  Commit(n, sendAll(Local(n), n, type, NoData, h), "sendAll", "", h.cb, NoMsg, net)

\* node.on(type, fn) for one of the user's listeners.
OnListener(n, type, fn) ==
  /\ Len(listeners[n][type]) < MaxListeners
  /\ Commit(n, on(Local(n), type, fn), "on", type, fn, NoMsg, net)

\* node.off(type, fn)
Off(n, type, fn) == Commit(n, off(Local(n), type, fn), "off", type, fn, NoMsg, net)

\* node.off(type)
OffType(n, type) == Commit(n, offType(Local(n), type), "offType", type, "", NoMsg, net)

\* node.off()
OffEvery(n) ==
  Commit(n, [offAll(Local(n)) EXCEPT !.calls = <<>>], "offAll", "", "", NoMsg, net)

\* node.off(type, fn).on(type, fn)
OffOn(n, type, fn) ==
  Commit(n, on(off(Local(n), type, fn), type, fn), "offOn", type, fn, NoMsg, net)

\* The timeout set by the constructor of `n` expires, 200 ms after `new Node`.
PubTimeout(n) ==
  /\ pubTimer[n] = "armed"
  /\ Commit(n, onPubTimeout(Local(n)), "pubTimeout", "", "", NoMsg, net)

\* node.send(type, data, cb)
Send(n, type, cb) ==
  \E r \in randRange(0, IF type \in DOMAIN clusterByMsg[n]
                          THEN Len(clusterByMsg[n][type]) ELSE 0) :
    Commit(n, send(Local(n), n, type, NoData, UserHandler(cb, 2), r),
           "send", ToString(r), cb, NoMsg, net)

\* node.on(type, listener), called once per type.
On(n, type) ==
  /\ type \notin messages[n]
  /\ Commit(n, on(Local(n), type, "listener"), "on", "", "", NoMsg, net)

\* The router socket of `d` emits 'message' for the oldest frame from `s`.
Deliver(s, d) ==
  /\ sockets[d] = "bound"
  /\ net[<<s, d>>] # <<>>
  /\ LET body == Head(net[<<s, d>>])
     IN Commit(d, onRouterMessage(Local(d), d, body), "deliver", s, "", body,
               [net EXCEPT ![<<s, d>>] = Tail(@)])

\* Each join call is given a callback of its own: the second call queued
\* before start carries another callback than the first.
JoinCb(n) == IF connectQueue[n] = <<>> THEN "cb1" ELSE "cb2"

NoEvent ==
  [op |-> "init", node |-> "", id |-> "", cb |-> "", msg |-> NoMsg,
   calls |-> <<>>, cbs |-> <<>>, sent |-> <<>>, pubs |-> <<>>,
   emitted |-> <<>>, threw |-> FALSE]

(***************************************************************************)
(* Hub (core/protocol.js).                                                 *)
(***************************************************************************)
Hubs == {"a", "b", "c"}
\* The inputs: every hub is bound by its user; the user of `a` calls handshake,
\* sendById and sendAll; the users of `b` and `c` listen to 'beep' with a
\* listener that replies; the user of `c` closes its hub.
Initiators == {"a"}
Responders == {"b", "c"}
Closers == {"c"}
ErrTwice == "you dont handshake twice bro."
NoArg == "undefined"

HubData(id) ==
  [k |-> "hub", id |-> id, router |-> RouterEndpoint(id), pub |-> PubEndpoint(id)]

\* The state of one hub an operation works on, with what it has output.
HubLocal(h) ==
  [st |-> hubState[h], socks |-> hubSockets[h], pruner |-> hubPruner[h],
   closed |-> <<>>, connected |-> connectedHubs[h],
   routerEps |-> routerEndpoints[h], subEps |-> subEndpoints[h],
   acks |-> pendingAcks[h], byTime |-> acksByTime[h],
   pending |-> hubReplies[h], ticks |-> ticks[h], nid |-> hubNextId[h],
   all |-> broadcasts[h],
   out |-> <<>>, req |-> <<>>, pubs |-> <<>>, cbs |-> <<>>, threw |-> FALSE]

\* build of a factory created without the defaults {id, src}.
Hub_buildNoDefaults(H, self, type, parent, data) ==
  [id |-> Undefined, src |-> "", dest |-> "", type |-> type,
   parent |-> parent, data |-> data]

\* MessageFactory.prototype.build with the hub's defaults (fresh id, src).
Hub_build(H, self, type, parent, data) ==
  [id |-> <<self, H.nid>>, src |-> self, dest |-> "", type |-> type,
   parent |-> parent, data |-> data]

\* Hub.prototype._connectRouter: routerSocket is null while the hub is CLOSED.
Hub_connectRouter(H, endpoint) ==
  IF H.threw \/ endpoint \in H.routerEps THEN H
  ELSE IF H.st # "BOUND" THEN [H EXCEPT !.threw = TRUE]
  ELSE [H EXCEPT !.routerEps = @ \cup {endpoint}]

\* Hub.prototype._connectSub
Hub_connectSub(H, endpoint) ==
  IF H.threw \/ endpoint \in H.subEps THEN H
  ELSE IF H.st # "BOUND" THEN [H EXCEPT !.threw = TRUE]
  ELSE [H EXCEPT !.subEps = @ \cup {endpoint}]

\* Hub.prototype._sendRouter
Hub_sendRouter(H, to, msg) ==
  IF H.threw THEN H
  ELSE IF H.st # "BOUND" THEN [H EXCEPT !.threw = TRUE]
  ELSE [H EXCEPT !.out = Append(@, [to |-> to, msg |-> msg])]

\* Hub.prototype._sendPub
Hub_sendPub(H, msg) ==
  IF H.threw THEN H
  ELSE IF H.st # "BOUND" THEN [H EXCEPT !.threw = TRUE]
  ELSE [H EXCEPT !.pubs = Append(@, msg)]

\* Hub.prototype._addAckHandler
Hub_addAckHandler(H, msg) ==
  IF H.threw THEN H
  ELSE [H EXCEPT !.acks = @ \cup {msg.id},
                 !.byTime = Append(@, [id |-> msg.id, fulfilled |-> FALSE])]

\* Hub.prototype._addReplyHandler
Hub_addReplyHandler(H, msg, h) ==
  IF H.threw THEN H
  ELSE [H EXCEPT !.pending = addReplyHandler(@, msg.id, h)]

HandleReply(hub, cb) == [kind |-> "handshake", hub |-> hub, cb |-> cb]
UserCallback(cb) == [kind |-> "user", hub |-> "", cb |-> cb]
NoCallback == [kind |-> "none", hub |-> "", cb |-> ""]

\* handshake without the test of lines 301-305.
Hub_handshakeUnguarded(H, self, hub, cb) ==
  LET message == Hub_build(H, self, "_handshake", Undefined, HubData(self))
      H1 == [H EXCEPT !.nid = @ + 1]
      H2 == Hub_addReplyHandler(Hub_addAckHandler(H1, message), message,
                                HandleReply(hub, cb))
      H3 == Hub_connectRouter(H2, RouterEndpoint(hub))
  IN IF H3.threw THEN H3
     ELSE [H3 EXCEPT !.req = Append(@, [to |-> hub, msg |-> message])]

\* Hub.prototype.handshake.  The message leaves through a req socket made
\* for it, whatever the state of the hub's own sockets.
Hub_handshake(H, self, hub, cb) ==
  IF hub \in H.connected
    THEN [H EXCEPT !.ticks = Append(@, [cb |-> cb, err |-> ErrTwice])]
    ELSE LET message == Hub_build(H, self, "_handshake", Undefined, HubData(self))
             H1 == [H EXCEPT !.nid = @ + 1]
             H2 == Hub_addReplyHandler(Hub_addAckHandler(H1, message), message,
                                       HandleReply(hub, cb))
             H3 == Hub_connectRouter(H2, RouterEndpoint(hub))
         IN IF H3.threw THEN H3
            ELSE [H3 EXCEPT !.req = Append(@, [to |-> hub, msg |-> message])]

\* Hub.prototype.sendById
Hub_sendById(H, self, id, message, h) ==
  LET H1 == IF h.kind # "none"
              THEN Hub_addAckHandler(Hub_addReplyHandler(H, message, h), message)
              ELSE H
  IN Hub_sendRouter(H1, id, message)

\* Hub.prototype.sendAll
Hub_sendAll(H, self, message, h) ==
  LET H1 == IF h.kind # "none"
              THEN Hub_addReplyHandler(Hub_addAckHandler(H, message), message, h)
              ELSE H
  IN Hub_sendPub(H1, message)

\* Hub.prototype.ack
Hub_ack(H, self, msg) ==
  LET m == Hub_build(H, self, "_ack", msg.id, NoData)
  IN Hub_sendById([H EXCEPT !.nid = @ + 1], self, msg.src, m, NoCallback)

\* Hub.prototype.reply
Hub_reply(H, self, msg, data, h) ==
  LET r == Hub_build(H, self, "_reply", msg.id, data)
      H1 == Hub_sendRouter([H EXCEPT !.nid = @ + 1], msg.src, r)
  IN IF h.kind # "none"
       THEN Hub_addReplyHandler(Hub_addAckHandler(H1, r), r, h)
       ELSE H1

\* Hub.prototype.reply of the earlier revision of the class, src/core/hub.js
\* lines 365-392: the factory builds the reply, and the argument list of
\* _sendRouter then calls replyMsg(), a Message object, which throws a
\* TypeError before anything is sent or filed (lines 389-390 would file the
\* handlers under msg, the message replied to).
HubJs_reply(H, self, msg, data, h) ==
  [H EXCEPT !.nid = @ + 1, !.threw = TRUE]

\* onHandshake without the _connectSub of line 360.
Hub_onHandshakeNoSub(H, self, msg) ==
  LET data == msg.data
      H1 == Hub_connectRouter(H, data.router)
      H2 == [H1 EXCEPT !.connected = @ \cup {data.id}]
  IN Hub_reply(Hub_ack(H2, self, msg), self, msg, HubData(self), NoCallback)

\* onHandshake with the reply of lines 366-370 sent before the ack of line 364.
Hub_onHandshakeReplyFirst(H, self, msg) ==
  LET data == msg.data
      H1 == Hub_connectSub(Hub_connectRouter(H, data.router), data.pub)
      H2 == [H1 EXCEPT !.connected = @ \cup {data.id}]
  IN Hub_ack(Hub_reply(H2, self, msg, HubData(self), NoCallback), self, msg)

\* Hub.prototype.onHandshake
Hub_onHandshake(H, self, msg) ==
  LET data == msg.data
      H1 == Hub_connectSub(Hub_connectRouter(H, data.router), data.pub)
      H2 == [H1 EXCEPT !.connected = @ \cup {data.id}]
  IN Hub_reply(Hub_ack(H2, self, msg), self, msg, HubData(self), NoCallback)

\* onAck answering the _ack with an _ack of its own.
Hub_onAckAcking(H, self, msg) == Hub_ack(H, self, msg)

\* Hub.prototype.onAck: it reads msg.id, a property a Message does not have
\* (the id is read with msg.get('id')), so the key it looks up is `undefined`.
Hub_onAck(H, self, msg) ==
  IF Undefined \in H.acks
    THEN [H EXCEPT !.acks = @ \ {Undefined},
                   !.byTime = [i \in DOMAIN @ |->
                      IF @[i].id = Undefined THEN [@[i] EXCEPT !.fulfilled = TRUE]
                      ELSE @[i]]]
    ELSE H

\* One callback of a pending-reply entry called with (null, msg): the
\* handleReply of handshake (lines 316-329) or a user's callback.
Hub_callback(H, self, h, msg) ==
  IF H.threw THEN H
  ELSE IF h.kind = "handshake"
    THEN LET H1 == Hub_connectSub(H, msg.data.pub)
         IN IF H1.threw THEN H1
            ELSE [H1 EXCEPT !.connected = @ \cup {msg.data.id},
                            !.cbs = Append(@, [cb |-> h.cb, err |-> NoArg,
                                               reply |-> Undefined])]
  ELSE IF h.kind = "user"
    THEN [H EXCEPT !.cbs = Append(@, [cb |-> h.cb, err |-> NoErr, reply |-> msg.id])]
  ELSE H

RECURSIVE Hub_callbacks(_, _, _, _, _)
Hub_callbacks(H, self, hs, msg, i) ==
  IF i > Len(hs) THEN H
  ELSE Hub_callbacks(Hub_callback(H, self, hs[i], msg), self, hs, msg, i + 1)

\* onReply recording the sender of every _reply as connected.
Hub_onReplyConnecting(H, self, msg) ==
  [H EXCEPT !.connected = @ \cup {msg.src}]

\* Hub.prototype.onReply
Hub_onReply(H, self, msg) ==
  IF msg.parent \in DOMAIN H.pending
    THEN LET H1 == Hub_callbacks(H, self, H.pending[msg.parent], msg, 1)
         IN IF H1.threw THEN H1
            ELSE [H1 EXCEPT !.pending =
                    [k \in (DOMAIN @) \ {msg.parent} |-> @[k]]]
    ELSE H

\* The user's listener of 'beep' (test/core.hub.js lines 187-190): it replies.
Hub_emit(H, self, msg) ==
  IF H.threw THEN H
  ELSE IF msg.type = "beep" /\ self \in Responders
    THEN Hub_reply(H, self, msg, [k |-> "ok"], NoCallback)
    ELSE H

\* routeMessage of Hub.prototype.bind
routeMessage(H, self, msg) ==
  LET H1 == IF msg.type = "_ack" THEN Hub_onAck(H, self, msg)
            ELSE IF msg.type = "_handshake" THEN Hub_onHandshake(H, self, msg)
            ELSE IF msg.type = "_reply" THEN Hub_onReply(H, self, msg)
            ELSE H
  IN Hub_emit(H1, self, msg)

\* The frames a peer outside the model can put on a hub's router socket:
\* bytes that are not JSON, JSON that is not an object (such as 5), and a
\* _handshake object without an id.
BadFrames == {"badjson", "nonobject", "noid"}

\* What Message.prototype.get reads from the frame (part_001:49-66), for the
\* two frames that can be parsed; of a non-object every path is undefined.
ParsedFrame(kind, src) ==
  IF kind = "noid"
    THEN [id |-> Undefined, src |-> src, dest |-> "", type |-> "_handshake",
          parent |-> Undefined, data |-> HubData(src)]
    ELSE [id |-> Undefined, src |-> "", dest |-> "", type |-> "",
          parent |-> Undefined, data |-> NoData]

\* The 'message' handler of the router socket (lines 231-243) for such a
\* frame: new Message(data) keeps the buffer, and routeMessage's first
\* msg.get('type') runs JSON.parse on it, which throws on bytes that are not
\* JSON; nothing in the handler catches it or looks at the shape.
routeFrame(H, self, kind, src) ==
  IF kind = "badjson" THEN [H EXCEPT !.threw = TRUE]
  ELSE routeMessage(H, self, ParsedFrame(kind, src))

\* Hub.prototype.bind: creates and binds the sockets, starts the ack pruner
\* and moves the machine to BOUND, when the machine is CLOSED.
Hub_bind(H) ==
  IF H.st # "CLOSED" THEN H
  ELSE [H EXCEPT !.socks = {"router", "pub", "sub"}, !.pruner = TRUE,
                 !.st = "BOUND"]

\* One `if (self.xSocket) { self.xSocket.close(); self.xSocket = null; }`
closeSocket(H, sock) ==
  IF sock \in H.socks
    THEN [H EXCEPT !.closed = Append(@, sock), !.socks = @ \ {sock}]
    ELSE H

\* close without the _stopAckPruner of line 282.
Hub_closeKeepPruner(H, cb) ==
  LET H1 == closeSocket(closeSocket(closeSocket(H, "router"), "pub"), "sub")
  IN [H1 EXCEPT !.st = "CLOSED", !.ticks = Append(@, [cb |-> cb, err |-> NoArg])]

\* Hub.prototype.close(callback): _machine.close() leaves the machine CLOSED
\* from either state; then the sockets that exist are closed, the pruner is
\* stopped and the callback is handed to process.nextTick.
Hub_close(H, cb) ==
  LET H1 == closeSocket(closeSocket(closeSocket(H, "router"), "pub"), "sub")
  IN [H1 EXCEPT !.st = "CLOSED", !.pruner = FALSE,
                !.ticks = Append(@, [cb |-> cb, err |-> NoArg])]

\* The interval callback of Hub.prototype._startAckPruner at a time when the
\* k oldest acks have expired: it shifts them off _pendingAcksByTime and, for
\* one that is not fulfilled, writes a line to the console.
Hub_prune(H, k) == [H EXCEPT !.byTime = SubSeq(@, k + 1, Len(@))]

(***************************************************************************)
(* Hub: the operations as actions.                                         *)
(***************************************************************************)
Linked(s, d, H) ==
  RouterEndpoint(d) \in H.routerEps \/ RouterEndpoint(s) \in routerEndpoints[d]

HubFrames(out, dst) ==
  LET sel == SelectSeq(out, LAMBDA f : f.to = dst)
  IN [i \in DOMAIN sel |-> sel[i].msg]

\* The transport.  A frame sent on the router socket reaches a bound hub that
\* one of the two router sockets is connected to; the frame of a req socket
\* reaches the bound hub it names; closing a hub discards what was on the
\* way to it.
HubTransmitRouter(h, H, chan) ==
  [p \in Hubs \X Hubs |->
     IF p[2] = h /\ H.st = "CLOSED" THEN <<>>
     ELSE IF p[1] = h /\ p[2] # h /\ hubState[p[2]] = "BOUND"
       THEN chan[p]
            \o (IF Linked(h, p[2], H) THEN HubFrames(H.out, p[2]) ELSE <<>>)
            \o HubFrames(H.req, p[2])
       ELSE chan[p]]

\* A frame sent on the pub socket reaches every bound hub whose sub socket is
\* connected to the sender's pub endpoint.
HubTransmitPub(h, H, chan) ==
  [p \in Hubs \X Hubs |->
     IF p[2] = h /\ H.st = "CLOSED" THEN <<>>
     ELSE IF p[1] = h /\ p[2] # h /\ hubState[p[2]] = "BOUND"
             /\ PubEndpoint(h) \in subEndpoints[p[2]]
       THEN chan[p] \o H.pubs
       ELSE chan[p]]

HubCommit(h, H, op, id, cb, msg, rchan, schan) ==
  /\ H.nid <= HubMaxMsgs + 1
  /\ hubState' = [hubState EXCEPT ![h] = H.st]
  /\ hubSockets' = [hubSockets EXCEPT ![h] = H.socks]
  /\ hubPruner' = [hubPruner EXCEPT ![h] = H.pruner]
  /\ connectedHubs' = [connectedHubs EXCEPT ![h] = H.connected]
  /\ routerEndpoints' = [routerEndpoints EXCEPT ![h] = H.routerEps]
  /\ subEndpoints' = [subEndpoints EXCEPT ![h] = H.subEps]
  /\ pendingAcks' = [pendingAcks EXCEPT ![h] = H.acks]
  /\ acksByTime' = [acksByTime EXCEPT ![h] = H.byTime]
  /\ hubReplies' = [hubReplies EXCEPT ![h] = H.pending]
  /\ ticks' = [ticks EXCEPT ![h] = H.ticks]
  /\ hubNextId' = [hubNextId EXCEPT ![h] = H.nid]
  /\ broadcasts' = [broadcasts EXCEPT ![h] = H.all]
  /\ routerNet' = HubTransmitRouter(h, H, rchan)
  /\ subNet' = HubTransmitPub(h, H, schan)
  /\ hev' = [op |-> op, node |-> h, id |-> id, cb |-> cb, msg |-> msg,
             cbs |-> H.cbs, sent |-> H.out, req |-> H.req, pubs |-> H.pubs,
             closed |-> H.closed, threw |-> H.threw]
  /\ UNCHANGED <<nvars, rvars, svars, cvars>>

\* The last operation handed the hub a message from one of its sockets.
IsDelivery(e) == e.op \in {"deliverRouter", "deliverSub"}

\* hub.bind()
Bind(h) == HubCommit(h, Hub_bind(HubLocal(h)), "bind", "", "", NoMsg, routerNet, subNet)

\* hub.close(), called on a bound hub.
Close(h) ==
  /\ hubState[h] = "BOUND" /\ Len(ticks[h]) < MaxTicks
  /\ HubCommit(h, Hub_close(HubLocal(h), ""), "close", "", "", NoMsg, routerNet, subNet)

\* hub.handshake(other, cb)
Handshake(h, other, cb) ==
  /\ Len(ticks[h]) < MaxTicks
  /\ HubCommit(h, Hub_handshake(HubLocal(h), h, other, cb), "handshake", other, cb,
               NoMsg, routerNet, subNet)

\* hub.sendById(id, hub.messageFactory.build({type: 'beep'}), cb)
SendById(h, id, cb) ==
  LET H == HubLocal(h)
      m == Hub_build(H, h, "beep", Undefined, NoData)
  IN HubCommit(h, Hub_sendById([H EXCEPT !.nid = @ + 1], h, id, m, UserCallback(cb)),
               "sendById", id, cb, m, routerNet, subNet)

\* hub.sendAll(hub.messageFactory.build({type: 'beep'}), cb)
HubSendAll(h, cb) ==
  LET H == HubLocal(h)
      m == Hub_build(H, h, "beep", Undefined, NoData)
      H1 == Hub_sendAll([H EXCEPT !.nid = @ + 1], h, m, UserCallback(cb))
  IN HubCommit(h, [H1 EXCEPT !.all = @ \cup {[id |-> m.id, cb |-> cb]}], "sendAll", "", cb, m,
               routerNet, subNet)

\* The router socket of `d` emits 'message' for the oldest frame from `s`.
\* Callbacks given to process.nextTick run before the next socket event.
DeliverRouter(s, d) ==
  /\ hubState[d] = "BOUND" /\ ticks[d] = <<>>
  /\ routerNet[<<s, d>>] # <<>>
  /\ LET msg == Head(routerNet[<<s, d>>])
     IN HubCommit(d, routeMessage(HubLocal(d), d, msg), "deliverRouter", s, "", msg,
                  [routerNet EXCEPT ![<<s, d>>] = Tail(@)], subNet)

\* The sub socket of `d` emits 'message' for the oldest frame from `s`.
DeliverSub(s, d) ==
  /\ hubState[d] = "BOUND" /\ ticks[d] = <<>>
  /\ subNet[<<s, d>>] # <<>>
  /\ LET msg == Head(subNet[<<s, d>>])
     IN HubCommit(d, routeMessage(HubLocal(d), d, msg), "deliverSub", s, "", msg,
                  routerNet, [subNet EXCEPT ![<<s, d>>] = Tail(@)])

\* The router socket of `d` emits 'message' for a frame of kind `kind` that
\* the peer `s` sent.
DeliverFrame(s, d, kind) ==
  /\ hubState[d] = "BOUND" /\ ticks[d] = <<>>
  /\ HubCommit(d, routeFrame(HubLocal(d), d, kind, s), "deliverFrame", s, kind,
               ParsedFrame(kind, s), routerNet, subNet)

\* hub.reply(msg, data, cb) or hub.reply(msg, data) for the _reply the hub
\* has just been handed (the reply to a reply).
ReplyTo(h, cb) ==
  /\ IsDelivery(hev) /\ hev.node = h /\ hev.msg.type = "_reply" /\ ~hev.threw
  /\ HubCommit(h, Hub_reply(HubLocal(h), h, hev.msg, NoData,
                            IF cb = "" THEN NoCallback ELSE UserCallback(cb)),
               "reply", hev.msg.src, cb, hev.msg, routerNet, subNet)

\* The same call on the reply of src/core/hub.js.
ReplyToOld(h, cb) ==
  /\ IsDelivery(hev) /\ hev.node = h /\ hev.msg.type = "_reply" /\ ~hev.threw
  /\ HubCommit(h, HubJs_reply(HubLocal(h), h, hev.msg, NoData, UserCallback(cb)),
               "replyOld", hev.msg.src, cb, hev.msg, routerNet, subNet)

\* The oldest callback `h` gave to process.nextTick runs.
RunTick(h) ==
  /\ ticks[h] # <<>>
  /\ LET t == Head(ticks[h])
         H == [HubLocal(h) EXCEPT !.ticks = Tail(@)]
     IN HubCommit(h, IF t.cb = "" THEN H
                     ELSE [H EXCEPT !.cbs = Append(@, [cb |-> t.cb, err |-> t.err,
                                                       reply |-> Undefined])],
                  "tick", "", t.cb, NoMsg, routerNet, subNet)

\* The ack pruner of `h` fires; the timer runs while the hub is bound, and
\* the acks expire in the order they were pushed.
Prune(h) ==
  /\ hubPruner[h] /\ ticks[h] = <<>>
  /\ \E k \in 1..Len(acksByTime[h]) :
       HubCommit(h, Hub_prune(HubLocal(h), k), "prune", "", "", NoMsg,
                 routerNet, subNet)

NoHubEvent ==
  [op |-> "init", node |-> "", id |-> "", cb |-> "", msg |-> NoMsg,
   cbs |-> <<>>, sent |-> <<>>, req |-> <<>>, pubs |-> <<>>, closed |-> <<>>,
   threw |-> FALSE]

\* The state after `new Hub(options)` for every hub.
HubInit ==
  /\ hubState = [h \in Hubs |-> "CLOSED"]
  /\ hubSockets = [h \in Hubs |-> {}]
  /\ hubPruner = [h \in Hubs |-> FALSE]
  /\ connectedHubs = [h \in Hubs |-> {}]
  /\ routerEndpoints = [h \in Hubs |-> {}]
  /\ subEndpoints = [h \in Hubs |-> {}]
  /\ pendingAcks = [h \in Hubs |-> {}]
  /\ acksByTime = [h \in Hubs |-> <<>>]
  /\ hubReplies = [h \in Hubs |-> <<>>]
  /\ ticks = [h \in Hubs |-> <<>>]
  /\ routerNet = [p \in Hubs \X Hubs |-> <<>>]
  /\ subNet = [p \in Hubs \X Hubs |-> <<>>]
  /\ hubNextId = [h \in Hubs |-> 1]
  /\ broadcasts = [h \in Hubs |-> {}]
  /\ hev = NoHubEvent

\* The state after `new Node(options)` for every node, and HubInit.
(***************************************************************************)
(* Registry (src/core/registry.js).                                        *)
(***************************************************************************)
HEARTBEAT == 5000
PRUNE_PERIOD == 100
Centaurs == {"x", "y", "z"}
ErrMissingId == "missing node id"

\* this._map as the constructor leaves it: the property is never assigned, so
\* it is undefined.  `def` tells an object from undefined, `tab` is the object.
NoMap == [def |-> FALSE, tab |-> <<>>]

\* The heartbeatTime of a record _onRegister has stored: the property is not
\* set, and `undefined > current` is false as is -1 > current.
NoTime == -1

RegLocal ==
  [map |-> regMap, now |-> regNow, pruned |-> {}, cbs |-> <<>>, threw |-> FALSE]

\* Registry.prototype._onHeartbeat
Registry_onHeartbeat(R, id) ==
  IF ~R.map.def \/ id \notin DOMAIN R.map.tab THEN [R EXCEPT !.threw = TRUE]
  ELSE [R EXCEPT !.map.tab[id].heartbeatTime = R.now + HEARTBEAT]

\* Registry.prototype._onRegister
Registry_onRegister(R, id, cb) ==
  IF id = "" THEN [R EXCEPT !.cbs = Append(@, [cb |-> cb, err |-> ErrMissingId])]
  ELSE IF ~R.map.def THEN [R EXCEPT !.threw = TRUE]
  ELSE [R EXCEPT !.map.tab = Put(@, id, [id |-> id, heartbeatTime |-> NoTime]),
                 !.cbs = Append(@, [cb |-> cb, err |-> NoErr])]

\* Registry.prototype._prune: Object.keys(undefined) throws; for each record
\* with heartbeatTime > current it publishes and emits 'prune' and deletes it.
Registry_prune(R) ==
  IF ~R.map.def THEN [R EXCEPT !.threw = TRUE]
  ELSE LET dead == {k \in DOMAIN R.map.tab : R.map.tab[k].heartbeatTime > R.now}
       IN [R EXCEPT !.map.tab = [k \in (DOMAIN R.map.tab) \ dead |-> R.map.tab[k]],
                    !.pruned = dead]

RegCommit(R, op, id) ==
  /\ regMap' = R.map
  /\ regNow' = R.now
  /\ rev' = [op |-> op, id |-> id, cbs |-> R.cbs, pruned |-> R.pruned,
             threw |-> R.threw]
  /\ UNCHANGED <<nvars, hvars, svars, cvars>>

\* A 'register' message of centaur `id` is handled.
Register(id) == RegCommit(Registry_onRegister(RegLocal, id, "reply"), "register", id)

\* A 'heartbeat' message of centaur `id` is handled.
Heartbeat(id) == RegCommit(Registry_onHeartbeat(RegLocal, id), "heartbeat", id)

\* The interval of _startPruner fires.
RegistryPrune == RegCommit(Registry_prune(RegLocal), "prune", "")

\* One period of the pruner's interval passes.
Elapse ==
  /\ regNow + PRUNE_PERIOD <= MaxTime
  /\ RegCommit([RegLocal EXCEPT !.now = @ + PRUNE_PERIOD], "elapse", "")

\* The state after `new Registry(endpoint)`.
RegistryInit ==
  /\ regMap = NoMap
  /\ regNow = 0
  /\ rev = [op |-> "init", id |-> "", cbs |-> <<>>, pruned |-> {}, threw |-> FALSE]

RegistryNext ==
  \/ \E id \in Centaurs \cup {""} : Register(id)
  \/ \E id \in Centaurs : Heartbeat(id)
  \/ RegistryPrune
  \/ Elapse

(***************************************************************************)
(* MessageStream (src/unnamed/part_002).                                   *)
(***************************************************************************)
Streams == {"s1", "s2"}
Payloads == {"m1", "m2"}

StreamLocal(st) ==
  [state |-> streamState[st], received |-> received[st], emitted |-> <<>>]

\* MessageStream.prototype.isClosed
isClosed(S) == S.state = 2

\* emitMessage without the isClosed test of lines 42-44.
emitMessageUnchecked(S, msg) ==
  [S EXCEPT !.state = IF @ = 0 THEN 1 ELSE @,
            !.received = @ + 1,
            !.emitted = Append(@, [event |-> "message", msg |-> msg])]

\* MessageStream.prototype.emitMessage
emitMessage(S, msg) ==
  IF S.state # 0 /\ isClosed(S) THEN S
  ELSE [S EXCEPT !.state = IF @ = 0 THEN 1 ELSE @,
                 !.received = @ + 1,
                 !.emitted = Append(@, [event |-> "message", msg |-> msg])]

\* MessageStream.prototype.close
close(S) == [S EXCEPT !.state = 2]

StreamCommit(st, S, op, msg) ==
  /\ S.received <= MaxReceived
  /\ streamState' = [streamState EXCEPT ![st] = S.state]
  /\ received' = [received EXCEPT ![st] = S.received]
  /\ sev' = [op |-> op, stream |-> st, msg |-> msg, emitted |-> S.emitted]
  /\ UNCHANGED <<nvars, hvars, rvars, cvars>>

\* stream.emitMessage(msg)
EmitMessage(st, msg) ==
  StreamCommit(st, emitMessage(StreamLocal(st), msg), "emitMessage", msg)

\* stream.close()
StreamClose(st) == StreamCommit(st, close(StreamLocal(st)), "close", "")

\* The state after `new MessageStream()` for every stream.
(***************************************************************************)
(* Cluster (src/unnamed/part_005).                                         *)
(***************************************************************************)
\* The nodes handed to the cluster and the types their hubs may advertise.
Members == {"n1", "n2"}
MemberTypes == {"t1", "t2"}

ClusterLocal == [ids |-> idIndex, types |-> typeIndex, threw |-> FALSE]

\* Cluster.prototype.addNode, for a node with id `id` whose hub.messages has
\* the keys `msgs`.
addNode(C, id, msgs) ==
  [C EXCEPT !.ids = Put(@, id, msgs),
            !.types = [t \in (DOMAIN @) \cup msgs |->
                         IF t \in msgs
                           THEN (IF t \in DOMAIN @ THEN @[t] ELSE {}) \cup {id}
                           ELSE @[t]]]

\* Cluster.prototype.removeNode: for an id that is not indexed, `node` is
\* undefined and reading node.hub throws.
removeNode(C, id) ==
  IF id \notin DOMAIN C.ids THEN [C EXCEPT !.threw = TRUE]
  ELSE [C EXCEPT !.types = [t \in DOMAIN @ |->
                              IF t \in C.ids[id] THEN @[t] \ {id} ELSE @[t]],
                 !.ids = [k \in (DOMAIN @) \ {id} |-> @[k]]]

\* Cluster.prototype.getByMessageType for a type that has an entry.
getByMessageType(C, type) == C.types[type]

ClusterCommit(C, op, id) ==
  /\ idIndex' = C.ids
  /\ typeIndex' = C.types
  /\ cev' = [op |-> op, id |-> id, threw |-> C.threw]
  /\ UNCHANGED <<nvars, hvars, rvars, svars>>

\* cluster.addNode(node): a node that is new to the cluster, or one whose
\* descriptor is handed in again with the types it advertises now.
AddNode(id, msgs) == ClusterCommit(addNode(ClusterLocal, id, msgs), "addNode", id)

\* cluster.removeNode(id)
RemoveNode(id) == ClusterCommit(removeNode(ClusterLocal, id), "removeNode", id)

\* The state after `new Cluster()`.
ClusterInit ==
  /\ idIndex = <<>>
  /\ typeIndex = <<>>
  /\ cev = [op |-> "init", id |-> "", threw |-> FALSE]

ClusterNext ==
  \/ \E id \in Members, msgs \in SUBSET MemberTypes : AddNode(id, msgs)
  \/ \E id \in Members : RemoveNode(id)

StreamInit ==
  /\ streamState = [st \in Streams |-> 0]
  /\ received = [st \in Streams |-> 0]
  /\ sev = [op |-> "init", stream |-> "", msg |-> "", emitted |-> <<>>]

StreamNext ==
  \/ \E st \in Streams, msg \in Payloads : EmitMessage(st, msg)
  \/ \E st \in Streams : StreamClose(st)

Init ==
  /\ state = [n \in Nodes |-> STOPPED]
  /\ sockets = [n \in Nodes |-> "open"]
  /\ messages = [n \in Nodes |-> {}]
  /\ listeners = [n \in Nodes |-> [t \in Types |-> <<>>]]
  /\ cluster = [n \in Nodes |-> <<>>]
  /\ clusterByMsg = [n \in Nodes |-> <<>>]
  /\ connectedTo = [n \in Nodes |-> {}]
  /\ clusterKeepalive = [n \in Nodes |-> <<>>]
  /\ routerConn = [n \in Nodes |-> {}]
  /\ subConn = [n \in Nodes |-> {}]
  /\ pendingReplies = [n \in Nodes |-> <<>>]
  /\ connectQueue = [n \in Nodes |-> <<>>]
  /\ pubQueue = [n \in Nodes |-> <<>>]
  /\ shouldQueuePub = [n \in Nodes |-> TRUE]
  /\ pubTimer = [n \in Nodes |-> "armed"]
  /\ net = [p \in Nodes \X Nodes |-> <<>>]
  /\ nextId = [n \in Nodes |-> 1]
  /\ ev = NoEvent
  /\ HubInit
  /\ RegistryInit
  /\ StreamInit
  /\ ClusterInit

Next ==
  \/ \E n \in Running : Start(n)
  \/ \E n \in Running : Stop(n)
  \/ \E n \in Callers, m \in Running : Join(n, m, JoinCb(n))
  \/ \E n \in Callers, id \in Targets, t \in AppTypes, a \in {1, 2} : SendTo(n, id, t, "cb1", a)
  \/ \E n \in Callers, t \in AppTypes, h \in {NoHandler, UserHandler("cb1", 2)} : SendAll(n, t, h)
  \/ \E s \in Nodes, d \in Nodes : Deliver(s, d)

Spec == Init /\ [][Next]_vars

\* A cluster of three: A and C join through the seed B (or through A), and
\* B tells A that it leaves (the frame of type _leave a departing peer sends).
Joiners == {"A", "C"}
Seeds == {"A", "B"}
Leavers == {"B"}

JoinNext ==
  \/ \E n \in Nodes : Start(n)
  \/ \E n \in Joiners, m \in Seeds : Join(n, m, "cb1")
  \/ \E n \in Leavers, id \in Callers : SendTo(n, id, "_leave", "cb1", 1)
  \/ \E s \in Nodes, d \in Nodes : Deliver(s, d)

JoinSpec == Init /\ [][JoinNext]_vars

\* Keepalives: A and C join through B, A and B send each other frames of type
\* _ka (the frame a peer sends once per period), and the clock advances by
\* one default period at a time.
KaSenders == {"A", "B"}

KaElapse ==
  /\ regNow + DefaultKeepalive <= MaxTime
  /\ RegCommit([RegLocal EXCEPT !.now = @ + DefaultKeepalive], "elapse", "")

KaNext ==
  \/ \E n \in Nodes : Start(n)
  \/ \E n \in Joiners : Join(n, "B", "cb1")
  \/ \E n \in KaSenders, id \in KaSenders : SendTo(n, id, "_ka", "cb1", 1)
  \/ \E s \in Nodes, d \in Nodes : Deliver(s, d)
  \/ KaElapse

KaSpec == Init /\ [][KaNext]_vars

\* A joins B, which may subscribe to the application type, and sends to
\* whoever subscribes.
Subscribers == {"B"}

SendNext ==
  \/ \E n \in Running : Start(n)
  \/ \E n \in Running : Stop(n)
  \/ \E n \in Subscribers, t \in AppTypes : On(n, t)
  \/ \E n \in Callers, m \in Subscribers : Join(n, m, JoinCb(n))
  \/ \E n \in Callers, t \in AppTypes : Send(n, t, "cb1")
  \/ \E s \in Nodes, d \in Nodes : Deliver(s, d)

SendSpec == Init /\ [][SendNext]_vars

\* The user's subscriptions: two listeners, an application type and an
\* internal one, on a node that may be started and stopped.
UserListeners == {"h1", "h2"}
UserTypes == {"work", "_join"}

OnOffNext ==
  \/ \E n \in Callers : Start(n)
  \/ \E n \in Callers : Stop(n)
  \/ \E n \in Callers, t \in UserTypes, f \in UserListeners : OnListener(n, t, f)
  \/ \E n \in Callers, t \in UserTypes, f \in UserListeners : Off(n, t, f)
  \/ \E n \in Callers, t \in UserTypes : OffType(n, t)
  \/ \E n \in Callers : OffEvery(n)
  \/ \E n \in Callers, t \in UserTypes, f \in UserListeners : OffOn(n, t, f)

OnOffSpec == Init /\ [][OnOffNext]_vars

\* Broadcasts around the startup delay of the publish socket.
PubNext ==
  \/ \E n \in Running : Start(n)
  \/ \E n \in Running : Stop(n)
  \/ \E n \in Running, t \in AppTypes, h \in {NoHandler, UserHandler("cb1", 2)} :
       SendAll(n, t, h)
  \/ \E n \in Running : PubTimeout(n)

PubSpec == Init /\ [][PubNext]_vars

HubNext ==
  \/ \E h \in Hubs : Bind(h)
  \/ \E h \in Closers : Close(h)
  \/ \E h \in Initiators, o \in Responders : Handshake(h, o, "cb1")
  \/ \E h \in Initiators : SendById(h, "b", "cb2")
  \/ \E h \in Initiators : HubSendAll(h, "cb3")
  \/ \E s \in Hubs, d \in Hubs : DeliverRouter(s, d)
  \/ \E s \in Hubs, d \in Hubs : DeliverSub(s, d)
  \/ \E h \in Hubs : RunTick(h)

HubSpec == Init /\ [][HubNext]_vars

\* The hubs with the ack pruner: handshakes and requests, their deliveries,
\* and the pruner's interval.
PruneNext ==
  \/ \E h \in Hubs : Bind(h)
  \/ \E h \in Initiators, o \in Responders : Handshake(h, o, "cb1")
  \/ \E h \in Initiators : SendById(h, "b", "cb2")
  \/ \E s \in Hubs, d \in Hubs : DeliverRouter(s, d)
  \/ \E h \in Hubs : RunTick(h)
  \/ \E h \in Hubs : Prune(h)

PruneSpec == Init /\ [][PruneNext]_vars

\* Replies to replies: a handshakes with b, and each hub may answer a _reply
\* it is handed, with or without a callback.
ReplyNext ==
  \/ \E h \in Hubs : Bind(h)
  \/ \E h \in Initiators, o \in Responders : Handshake(h, o, "cb1")
  \/ \E s \in Hubs, d \in Hubs : DeliverRouter(s, d)
  \/ \E h \in Hubs : RunTick(h)
  \/ \E h \in Hubs, cb \in {"", "cb4"} : ReplyTo(h, cb)
  \/ \E h \in Hubs : ReplyToOld(h, "cb4")

ReplySpec == Init /\ [][ReplyNext]_vars

\* The hubs with a peer that sends frames no factory built.
FrameNext ==
  \/ \E h \in Hubs : Bind(h)
  \/ \E h \in Initiators, o \in Responders : Handshake(h, o, "cb1")
  \/ \E s \in Hubs, d \in Hubs : DeliverRouter(s, d)
  \/ \E h \in Hubs : RunTick(h)
  \/ \E s \in Closers, d \in Hubs \ Closers, k \in BadFrames : DeliverFrame(s, d, k)

FrameSpec == Init /\ [][FrameNext]_vars

RegistrySpec == Init /\ [][RegistryNext]_vars

StreamSpec == Init /\ [][StreamNext]_vars

ClusterSpec == Init /\ [][ClusterNext]_vars

(***************************************************************************)
(* Properties of the Node engine, checked under Spec.                      *)
(***************************************************************************)
\* What an operation leaves alone in node n.
SameTables(n) ==
  /\ cluster'[n] = cluster[n]
  /\ clusterByMsg'[n] = clusterByMsg[n]
  /\ connectedTo'[n] = connectedTo[n]
  /\ routerConn'[n] = routerConn[n]
  /\ subConn'[n] = subConn[n]
  /\ pendingReplies'[n] = pendingReplies[n]
  /\ pubQueue'[n] = pubQueue[n]
  /\ nextId'[n] = nextId[n]
  /\ net' = net

SameNode(n) ==
  /\ SameTables(n)
  /\ state'[n] = state[n]
  /\ sockets'[n] = sockets[n]
  /\ messages'[n] = messages[n]
  /\ listeners'[n] = listeners[n]
  /\ connectQueue'[n] = connectQueue[n]

Quiet(e) ==
  e.calls = <<>> /\ e.cbs = <<>> /\ e.sent = <<>> /\ e.pubs = <<>> /\ e.emitted = <<>>

\* C1: a sendTo(id, type, data, cb) made while id is not in the cluster view
\* calls cb with the 'no such node' error and nothing else, sends nothing on
\* the router socket and registers no pending reply; a sendTo that sends a
\* frame was made with id in the cluster view.
C1_SendToUnknownPeer ==
  [][\A n \in Nodes :
       (ev'.op = "sendTo" /\ ev'.node = n) =>
         /\ ~InCluster(cluster[n], ev'.id) =>
              /\ ev'.cbs = <<[cb |-> ev'.cb, err |-> ErrNoSuchNode, reply |-> Undefined]>>
              /\ ev'.sent = <<>> /\ ev'.pubs = <<>>
              /\ SameNode(n)
         /\ ev'.sent # <<>> =>
              /\ InCluster(cluster[n], ev'.id)
              /\ \A i \in DOMAIN ev'.sent : ev'.sent[i].to = ev'.id]_vars

\* A sendTo to an unknown id has failed in a node whose view holds a peer.
C1_Witness ==
  /\ ev.op = "sendTo" /\ ev.sent = <<>>
  /\ Len(ev.cbs) = 1 /\ ev.cbs[1].err = ErrNoSuchNode
  /\ cluster[ev.node] # <<>> /\ ~InCluster(cluster[ev.node], ev.id)

\* C2: when a _reply whose parent has a pending-reply entry is dispatched,
\* one callback is run per registered handler and the entry is removed.
C2_ReplyEntryRemoved ==
  [][\A n \in Nodes :
       ( /\ ev'.op = "deliver" /\ ev'.node = n /\ ev'.msg.type = "_reply"
         /\ "_reply" \in messages[n]
         /\ ev'.msg.parent \in DOMAIN pendingReplies[n] ) =>
           /\ Len(ev'.cbs) = Len(pendingReplies[n][ev'.msg.parent])
           /\ ev'.msg.parent \notin DOMAIN pendingReplies'[n]]_vars

\* C6: start() from STOPPED runs _initSockets and _initListeners, sets the
\* state to STARTED and emits 'started' once; start() while STARTED changes
\* nothing, runs neither initialiser and emits nothing.
C6_Start ==
  [][\A n \in Nodes :
       (ev'.op = "start" /\ ev'.node = n) =>
         /\ state[n] = STOPPED =>
              /\ ev'.calls = <<"_initSockets", "_initListeners">>
              /\ sockets[n] = "open" => sockets'[n] = "bound"
              /\ \A t \in InternalTypes : t \in messages'[n] /\ Len(listeners'[n][t]) = 1
              /\ state'[n] = STARTED
              /\ ev'.emitted = <<"started">>
         /\ state[n] = STARTED => SameNode(n) /\ Quiet(ev')]_vars

\* start() has been called on a node that was already STARTED.
C6_Witness ==
  /\ ev.op = "start" /\ ev.calls = <<>> /\ ev.emitted = <<>>
  /\ state[ev.node] = STARTED /\ sockets[ev.node] = "bound"

\* C7: stop() from a state other than STOPPED closes the sockets, removes
\* every subscription, sets the state to STOPPED and emits 'stopped' once;
\* stop() while STOPPED changes nothing, closes nothing and emits nothing.
C7_Stop ==
  [][\A n \in Nodes :
       (ev'.op = "stop" /\ ev'.node = n) =>
         /\ state[n] # STOPPED =>
              /\ ev'.calls = <<"_closeSockets", "off">>
              /\ sockets'[n] = "closed"
              /\ messages'[n] = {}
              /\ \A t \in Types : listeners'[n][t] = <<>>
              /\ state'[n] = STOPPED
              /\ ev'.emitted = <<"stopped">>
         /\ state[n] = STOPPED => SameNode(n) /\ Quiet(ev')]_vars

\* stop() has been called on a node that an earlier stop() had stopped.
C7_Witness ==
  /\ ev.op = "stop" /\ ev.calls = <<>> /\ ev.emitted = <<>>
  /\ state[ev.node] = STOPPED /\ sockets[ev.node] = "closed"

C9_JoinStates ==
  [][\A n \in Nodes :
       /\ (ev'.op = "join" /\ ev'.node = n /\ state[n] = STARTED) =>
            state'[n] = JOINING
       /\ ( /\ ev'.op = "deliver" /\ ev'.node = n /\ ev'.msg.type = "_reply"
            /\ ev'.msg.parent \in DOMAIN pendingReplies[n]
            /\ state[n] = JOINING ) => state'[n] = JOINED]_vars

\* The queued calls whose seed is another node: each sends one _join.
QueuedSeeds(q, self) == SelectSeq(q, LAMBDA a : a.node.id # self)
\* The queued calls whose seed is the node itself: each fails at once.
QueuedSelf(q, self) == SelectSeq(q, LAMBDA a : a.node.id = self)

\* C10: join(seed, cb) while STOPPED appends the call to the queue, sends
\* nothing and calls nothing; start() then runs each queued call once, in
\* the order of the calls (one _join per seed, registered with the call's
\* callback; a call naming the node itself fails with 'no such node'), and
\* leaves the queue empty.
C10_QueuedJoins ==
  [][\A n \in Nodes :
       /\ (ev'.op = "join" /\ ev'.node = n /\ state[n] = STOPPED) =>
            /\ connectQueue'[n] =
                 Append(connectQueue[n],
                        [node |-> Descriptor(ev'.id, messages[ev'.id]), cb |-> ev'.cb])
            /\ Quiet(ev') /\ SameTables(n) /\ state'[n] = STOPPED
       /\ (ev'.op = "start" /\ ev'.node = n /\ state[n] = STOPPED) =>
            LET seeds == QueuedSeeds(connectQueue[n], n)
                selfs == QueuedSelf(connectQueue[n], n)
            IN /\ connectQueue'[n] = <<>>
               /\ Len(ev'.sent) = Len(seeds)
               /\ \A i \in DOMAIN seeds :
                    /\ ev'.sent[i].to = seeds[i].node.id
                    /\ ev'.sent[i].msg.type = "_join"
                    /\ ev'.sent[i].msg.id = <<n, nextId[n] + i - 1>>
                    /\ pendingReplies'[n][ev'.sent[i].msg.id] =
                         <<JoinHandler(seeds[i].node.id, seeds[i].cb)>>
               /\ ev'.cbs = [i \in DOMAIN selfs |->
                    [cb |-> selfs[i].cb, err |-> ErrNoSuchNode, reply |-> Undefined]]]_vars

\* start() has just run two queued joins.
C10_Witness ==
  /\ ev.op = "start" /\ Len(ev.sent) = 2
  /\ ev.sent[1].msg.type = "_join" /\ ev.sent[2].msg.type = "_join"
  /\ connectQueue[ev.node] = <<>>

(***************************************************************************)
(* Properties of the Hub, checked under HubSpec.                           *)
(***************************************************************************)
\* C3: every _reply whose parent is the id of a message that was broadcast
\* with sendAll(message, cb) calls cb once with (null, the reply), for the
\* second responder as for the first.
C3_BroadcastReplies ==
  [][\A h \in Hubs : \A b \in broadcasts[h] :
       ( /\ hev'.op = "deliverRouter" /\ hev'.node = h
         /\ hev'.msg.type = "_reply" /\ hev'.msg.parent = b.id ) =>
           hev'.cbs = <<[cb |-> b.cb, err |-> NoErr, reply |-> hev'.msg.id]>>]_vars

\* C4: handshake(h, cb) called when h is in _connectedHubs sends nothing,
\* leaves _connectedHubs, _pendingAcks and _pendingReplies as they were and
\* hands process.nextTick a callback that calls cb with the Error.
C4_NoSecondHandshake ==
  [][\A h \in Hubs :
       /\ (hev'.op = "handshake" /\ hev'.node = h /\ hev'.id \in connectedHubs[h]) =>
            /\ hev'.req = <<>> /\ hev'.sent = <<>> /\ hev'.pubs = <<>>
            /\ routerNet' = routerNet /\ subNet' = subNet
            /\ connectedHubs' = connectedHubs
            /\ pendingAcks' = pendingAcks /\ acksByTime' = acksByTime
            /\ hubReplies' = hubReplies
            /\ ticks'[h] = Append(ticks[h], [cb |-> hev'.cb, err |-> ErrTwice])
       /\ ( /\ hev'.op = "tick" /\ hev'.node = h /\ ticks[h] # <<>>
            /\ Head(ticks[h]).err = ErrTwice ) =>
            /\ hev'.cbs = <<[cb |-> Head(ticks[h]).cb, err |-> ErrTwice,
                             reply |-> Undefined]>>
            /\ connectedHubs' = connectedHubs
            /\ pendingAcks' = pendingAcks /\ hubReplies' = hubReplies
            /\ routerNet' = routerNet]_vars

\* The callback of a second handshake with a connected hub has been called
\* with the Error.
C4_Witness ==
  /\ hev.op = "tick"
  /\ hev.cbs = <<[cb |-> "cb1", err |-> ErrTwice, reply |-> Undefined]>>
  /\ connectedHubs[hev.node] # {}

InFlight(chan, p) ==
  Cardinality({x \in {<<c, i>> : c \in Nodes \X Nodes, i \in 1..MaxMsgs + 1} :
     /\ x[2] \in DOMAIN chan[x[1]]
     /\ LET f == chan[x[1]][x[2]]
        IN \/ f.type = "_join" /\ f.id = p
           \/ f.type = "_reply" /\ f.parent = p})

IsJoinEntry(pending, p) ==
  p \in DOMAIN pending /\ \E i \in DOMAIN pending[p] : pending[p][i].kind = "join"

OtherMembers(c, self) == SelectSeq(c, LAMBDA d : d.id # self)

\* C12: when the reply to a _join arrives, the node has the seed (`me`) in
\* its view afterwards and sends one _connect with its own descriptor to each
\* member of the returned cluster other than itself, in the order of the
\* cluster, and none to itself or to the seed.
C12_ConnectFanOut ==
  [][\A n \in Nodes :
       ( /\ ev'.op = "deliver" /\ ev'.node = n /\ ev'.msg.type = "_reply"
         /\ IsJoinEntry(pendingReplies[n], ev'.msg.parent) ) =>
         LET others == OtherMembers(ev'.msg.data.cluster, n)
             seed == ev'.msg.data.me.id
         IN /\ InCluster(cluster'[n], seed)
            /\ Len(ev'.sent) = Len(others)
            /\ \A i \in DOMAIN others :
                 /\ ev'.sent[i].to = others[i].id
                 /\ ev'.sent[i].msg.type = "_connect"
                 /\ ev'.sent[i].msg.dest = others[i].id
                 /\ ev'.sent[i].msg.data = InfoData(Descriptor(n, messages[n]))
                 /\ InCluster(cluster'[n], others[i].id)
            /\ \A i \in DOMAIN ev'.sent : ev'.sent[i].to \notin {n, seed}
            /\ \A i, j \in DOMAIN ev'.sent :
                 ev'.sent[i].to = ev'.sent[j].to => i = j]_vars

\* The reply to a _join named a third member, and a _connect went to it.
C12_Witness ==
  /\ ev.op = "deliver" /\ ev.msg.type = "_reply"
  /\ IsJoinEntry(pendingReplies[ev.node], ev.msg.parent)
  /\ Len(ev.msg.data.cluster) = 2
  /\ Len(ev.sent) = 1 /\ ev.sent[1].msg.type = "_connect"

(***************************************************************************)
(* Properties of send, checked under SendSpec.                             *)
(***************************************************************************)
\* The peers in the view of n that advertise `type`.
Advertisers(n, type) ==
  {cluster[n][i].id : i \in {j \in DOMAIN cluster[n] : type \in cluster[n][j].messages}}

C14_SendPicksSubscriber ==
  [][\A n \in Nodes :
       ( /\ ev'.op = "send" /\ ev'.node = n
         /\ "work" \in DOMAIN clusterByMsg[n] /\ clusterByMsg[n]["work"] # <<>> ) =>
         /\ Len(ev'.sent) = 1
         /\ \E i \in DOMAIN clusterByMsg[n]["work"] :
              ev'.sent[1].to = clusterByMsg[n]["work"][i]
         /\ InCluster(cluster[n], ev'.sent[1].to)
         /\ ev'.sent[1].msg.dest = ev'.sent[1].to
         /\ ev'.sent[1].msg.type = "work"
         /\ ev'.cbs = <<>>
         /\ ev'.sent[1].msg.id \in DOMAIN pendingReplies'[n]]_vars

(***************************************************************************)
(* Properties of the hub's pending acks.                                   *)
(***************************************************************************)
\* C15: when an _ack with parent p arrives at a hub that holds a pending-ack
\* entry for p, the entry is marked fulfilled and is no longer in the
\* pending-ack table after the step.
C15_AckFulfils ==
  [][\A h \in Hubs :
       ( /\ hev'.op = "deliverRouter" /\ hev'.node = h /\ hev'.msg.type = "_ack"
         /\ hev'.msg.parent \in pendingAcks[h] ) =>
         /\ hev'.msg.parent \notin pendingAcks'[h]
         /\ \A i \in DOMAIN acksByTime'[h] :
              acksByTime'[h][i].id = hev'.msg.parent => acksByTime'[h][i].fulfilled]_vars

\* The entries the pruner took off the by-time list in this step.
Pruned(h) == SubSeq(acksByTime[h], 1, Len(acksByTime[h]) - Len(acksByTime'[h]))

\* C16: when the pruner takes an unfulfilled ack off its list (it has no
\* retry, and never visits the ack again), the request's pending-reply
\* callbacks are called with DeliveryFailed and the request is in neither the
\* pending-ack nor the pending-reply table afterwards.
C16_ExpiredAckReported ==
  [][\A h \in Hubs :
       (hev'.op = "prune" /\ hev'.node = h) =>
         \A i \in DOMAIN Pruned(h) :
           ~Pruned(h)[i].fulfilled =>
             /\ Pruned(h)[i].id \notin pendingAcks'[h]
             /\ Pruned(h)[i].id \notin DOMAIN hubReplies'[h]
             /\ Pruned(h)[i].id \in DOMAIN hubReplies[h] =>
                  \A j \in DOMAIN hubReplies[h][Pruned(h)[i].id] :
                    \E c \in DOMAIN hev'.cbs :
                      /\ hev'.cbs[c].cb = hubReplies[h][Pruned(h)[i].id][j].cb
                      /\ hev'.cbs[c].err = "DeliveryFailed"]_vars

(***************************************************************************)
(* Properties of a peer's departure, checked under JoinSpec.               *)
(***************************************************************************)
\* A _leave from a peer that is in the view of n is dispatched at n.
LeaveArrives(n) ==
  /\ ev'.op = "deliver" /\ ev'.node = n /\ ev'.msg.type = "_leave"
  /\ InCluster(cluster[n], ev'.msg.src)

\* The ids of the _join requests n sent to peer P that are still unanswered.
PendingJoinsTo(n, P) ==
  {p \in DOMAIN pendingReplies[n] :
     /\ \E i \in DOMAIN pendingReplies[n][p] :
          pendingReplies[n][p][i].kind = "join" /\ pendingReplies[n][p][i].seed = P
     /\ InFlight(net, p) > 0}

\* C17: when a peer P leaves the view of n on a _leave, every pending entry
\* for a request n sent to P is removed and its callback is called with
\* PeerLost, so that no pending entry refers to a peer absent from the view.
C17_PeerLost ==
  [][\A n \in Nodes :
       LeaveArrives(n) =>
         \A p \in PendingJoinsTo(n, ev'.msg.src) :
           /\ p \notin DOMAIN pendingReplies'[n]
           /\ \A i \in DOMAIN pendingReplies[n][p] :
                \E c \in DOMAIN ev'.cbs :
                  /\ ev'.cbs[c].cb = pendingReplies[n][p][i].cb
                  /\ ev'.cbs[c].err = "PeerLost"]_vars

\* C20: on a _leave from a peer P that is in the view, P is out of the id
\* index and of every entry of the type index after the dispatch step, and
\* the step sends nothing (no _reply, no _ack).
C20_LeaveRemovesPeer ==
  [][\A n \in Nodes :
       LeaveArrives(n) =>
         /\ ~InCluster(cluster'[n], ev'.msg.src)
         /\ \A t \in DOMAIN clusterByMsg'[n] :
              \A i \in DOMAIN clusterByMsg'[n][t] :
                clusterByMsg'[n][t][i] # ev'.msg.src
         /\ ev'.sent = <<>> /\ ev'.pubs = <<>>]_vars

\* C18: stop() on a running node calls every callback of every request that
\* is pending at that moment exactly once with a NodeStopped error and leaves
\* the pending-reply table empty.
C18_StopCancelsPending ==
  [][\A n \in Nodes :
       (ev'.op = "stop" /\ ev'.node = n /\ state[n] # STOPPED) =>
         /\ DOMAIN pendingReplies'[n] = {}
         /\ \A p \in DOMAIN pendingReplies[n] :
              \A i \in DOMAIN pendingReplies[n][p] :
                Cardinality({c \in DOMAIN ev'.cbs :
                   /\ ev'.cbs[c].cb = pendingReplies[n][p][i].cb
                   /\ ev'.cbs[c].err = "NodeStopped"}) >= 1
         /\ Len(ev'.cbs) = Cardinality({<<p, i>> \in
                (DOMAIN pendingReplies[n]) \X (1..MaxMsgs + 1) :
                i \in DOMAIN pendingReplies[n][p]})]_vars

(***************************************************************************)
(* Properties of the registry's pruner, checked under RegistrySpec.        *)
(***************************************************************************)
\* The peers of a table whose heartbeat deadline is earlier than `now`.
Expired(tab, now) == {k \in DOMAIN tab : tab[k].heartbeatTime < now}

\* C19: a prune tick completes and removes exactly the peers whose deadline
\* has passed, with a removal notice for each: the peers left are those that
\* were stored and whose deadline has not passed.
C19_PruneExpired ==
  [][rev'.op = "prune" =>
       /\ ~rev'.threw
       /\ regMap'.def
       /\ DOMAIN regMap'.tab = (DOMAIN regMap.tab) \ Expired(regMap.tab, regNow)
       /\ rev'.pruned = Expired(regMap.tab, regNow)]_vars

(***************************************************************************)
(* Properties of the publish socket.                                       *)
(***************************************************************************)
IsLeave(m, n) == m.type = "_leave" /\ m.src = n /\ m.dest = "_all"

\* C21: stop() on a started node publishes a _leave (src = the node's id,
\* dest = _all): the step hands one to the publish path, which sends it or
\* queues it.
C21_StopPublishesLeave ==
  [][\A n \in Nodes :
       (ev'.op = "stop" /\ ev'.node = n /\ state[n] # STOPPED) =>
         \/ \E i \in DOMAIN ev'.pubs : IsLeave(ev'.pubs[i], n)
         \/ \E i \in DOMAIN pubQueue'[n] :
              i > Len(pubQueue[n]) /\ IsLeave(pubQueue'[n][i], n)]_vars

\* C22: when the startup delay elapses each queued payload is sent once on
\* the publish socket in FIFO order and the node stops queuing; every
\* publish after the delay is sent directly, not queued.
C22_PubQueueFlushed ==
  [][\A n \in Nodes :
       /\ (ev'.op = "pubTimeout" /\ ev'.node = n) =>
            ev'.pubs = pubQueue[n] /\ ~shouldQueuePub'[n]
       /\ (ev'.op = "sendAll" /\ ev'.node = n /\ pubTimer[n] = "fired") =>
            Len(ev'.pubs) = 1 /\ pubQueue'[n] = pubQueue[n]]_vars

(***************************************************************************)
(* Properties of on and off, checked under OnOffSpec.                      *)
(***************************************************************************)
\* C23: after any sequence of on and off calls a type is in the node's
\* descriptor (getInfo().messages) exactly when at least one listener is
\* registered for it.
C23_AdvertisedIffHandled ==
  \A n \in Nodes : \A t \in Types :
    t \in getInfo(Local(n), n).messages <=> listeners[n][t] # <<>>

\* off(type, fn) removed one of several listeners and the type stayed.
C23_Witness ==
  /\ ev.op = "off"
  /\ listeners[ev.node][ev.id] # <<>>
  /\ ev.id \in messages[ev.node]
  /\ C23_AdvertisedIffHandled

\* How many times fn is registered in fns.
Times(fns, fn) == Cardinality({i \in DOMAIN fns : fns[i] = fn})

C25_ClosedStreamSilent ==
  [][\A st \in Streams :
       (sev'.op = "emitMessage" /\ sev'.stream = st /\ streamState[st] = 2) =>
         /\ sev'.emitted = <<>>
         /\ received'[st] = received[st]
         /\ streamState'[st] = 2]_vars

\* emitMessage was called on a stream closed after it had emitted messages.
C25_Witness ==
  /\ sev.op = "emitMessage"
  /\ streamState[sev.stream] = 2
  /\ received[sev.stream] > 0
  /\ sev.emitted = <<>>

\* C26: the state of a stream changes only from 0 to 1, by an emitMessage,
\* and from 1 to 2, by a close.
C26_StreamTransitions ==
  [][\A st \in Streams :
       streamState'[st] # streamState[st] =>
         \/ streamState[st] = 0 /\ streamState'[st] = 1 /\ sev'.op = "emitMessage"
         \/ streamState[st] = 1 /\ streamState'[st] = 2 /\ sev'.op = "close"]_vars

(***************************************************************************)
(* Properties of the hub's lifecycle, checked under HubSpec.               *)
(***************************************************************************)
HubSocketNames == {"router", "pub", "sub"}

\* The fields of hub h that bind and close work on are unchanged.
SameHub(h) ==
  /\ hubState'[h] = hubState[h] /\ hubSockets'[h] = hubSockets[h]
  /\ hubPruner'[h] = hubPruner[h] /\ ticks'[h] = ticks[h]
  /\ connectedHubs'[h] = connectedHubs[h]
  /\ routerEndpoints'[h] = routerEndpoints[h] /\ subEndpoints'[h] = subEndpoints[h]
  /\ pendingAcks'[h] = pendingAcks[h] /\ hubReplies'[h] = hubReplies[h]

Emitted(e) ==
  [i \in 1..Len(e.sent) |-> e.sent[i].msg]
    \o [i \in 1..Len(e.req) |-> e.req[i].msg] \o e.pubs

\* C28: every message a hub builds and sends carries src equal to the hub's
\* id and an id its factory had not produced before (and no two messages of
\* one step share an id), and every _ack and _reply it emits is emitted while
\* a message is dispatched and carries that message's id as parent.
C28_FreshIdsAndParents ==
  [][\A h \in Hubs :
       hev'.node = h =>
         LET out == Emitted(hev')
         IN /\ \A i \in DOMAIN out :
                 /\ out[i].src = h
                 /\ out[i].id[1] = h
                 /\ out[i].id[2] >= hubNextId[h] /\ out[i].id[2] < hubNextId'[h]
                 /\ out[i].type \in {"_ack", "_reply"} =>
                      IsDelivery(hev') /\ out[i].parent = hev'.msg.id
            /\ \A i, j \in DOMAIN out : out[i].id = out[j].id => i = j]_vars

\* A _handshake was dispatched and answered with an _ack and a _reply.
C28_Witness ==
  /\ IsDelivery(hev) /\ hev.msg.type = "_handshake"
  /\ Len(hev.sent) = 2
  /\ hev.sent[1].msg.type = "_ack" /\ hev.sent[2].msg.type = "_reply"
  /\ hev.sent[1].msg.parent = hev.msg.id /\ hev.sent[2].msg.parent = hev.msg.id

\* C29: when an application message (type not starting with _) is dispatched
\* at a hub whose policy says ack (ackAll is true by default), the hub sends
\* an _ack with parent = the message's id to the message's src within that
\* dispatch.
C29_AppMessageAcked ==
  [][\A h \in Hubs :
       (IsDelivery(hev') /\ hev'.node = h /\ hev'.msg.type = "beep") =>
         \E i \in DOMAIN hev'.sent :
           /\ hev'.sent[i].msg.type = "_ack"
           /\ hev'.sent[i].msg.parent = hev'.msg.id
           /\ hev'.sent[i].to = hev'.msg.src]_vars

\* C30: the dispatch of an inbound _ack or _reply emits no _ack, on any
\* socket.
C30_NoAckForAck ==
  [][\A h \in Hubs :
       (IsDelivery(hev') /\ hev'.node = h /\ hev'.msg.type \in {"_ack", "_reply"}) =>
         \A i \in DOMAIN Emitted(hev') : Emitted(hev')[i].type # "_ack"]_vars

\* An _ack and a _reply were dispatched, the last one without any answer.
C30_Witness ==
  /\ IsDelivery(hev) /\ hev.msg.type \in {"_ack", "_reply"}
  /\ Emitted(hev) = <<>>
  /\ \E h \in Hubs : connectedHubs[h] # {} /\ h = hev.node

(***************************************************************************)
(* Properties of the node's protocol handlers.                             *)
(***************************************************************************)
\* C31: when a _join or _connect from S is dispatched at a node that handles
\* it, the node merges S's descriptor into its cluster view and sends S both a
\* _reply and an _ack, each with parent = the id of the inbound message; the
\* reply to a _join carries the cluster view and the node's descriptor, the
\* reply to a _connect the node's descriptor.
C31_JoinAnsweredAndAcked ==
  [][\A d \in Nodes :
       (/\ ev'.op = "deliver" /\ ev'.node = d
        /\ ev'.msg.type \in {"_join", "_connect"}
        /\ ev'.msg.type \in messages[d]
        /\ ev'.msg.src # d) =>
         /\ InCluster(cluster'[d], ev'.msg.src)
         /\ \E i \in DOMAIN ev'.sent :
              /\ ev'.sent[i].to = ev'.msg.src
              /\ ev'.sent[i].msg.type = "_reply"
              /\ ev'.sent[i].msg.parent = ev'.msg.id
              /\ ev'.sent[i].msg.data =
                   IF ev'.msg.type = "_join"
                     THEN ViewData(cluster'[d], Descriptor(d, messages[d]))
                     ELSE InfoData(Descriptor(d, messages[d]))
         /\ \E i \in DOMAIN ev'.sent :
              /\ ev'.sent[i].to = ev'.msg.src
              /\ ev'.sent[i].msg.type = "_ack"
              /\ ev'.sent[i].msg.parent = ev'.msg.id]_vars

(***************************************************************************)
(* Properties of the hub's handshake, checked under HubSpec.               *)
(***************************************************************************)
\* C32: the dispatch of a _handshake m records the sender as connected and
\* hands the router socket the _ack for m and then the _reply to m, in that
\* order; so an _ack on its way from b to a finds a recorded at b, and the
\* reply to m is never ahead of m's ack on the way to the sender.
C32_EffectThenAckThenReply ==
  [][/\ \A h \in Hubs :
          (IsDelivery(hev') /\ hev'.node = h /\ hev'.msg.type = "_handshake") =>
             /\ hev'.msg.data.id \in connectedHubs'[h]
             /\ Len(hev'.sent) = 2
             /\ hev'.sent[1].to = hev'.msg.src /\ hev'.sent[2].to = hev'.msg.src
             /\ hev'.sent[1].msg.type = "_ack" /\ hev'.sent[2].msg.type = "_reply"
             /\ hev'.sent[1].msg.parent = hev'.msg.id
             /\ hev'.sent[2].msg.parent = hev'.msg.id
     /\ \A a, b \in Hubs :
          LET q == routerNet'[<<b, a>>]
          IN /\ \A i \in DOMAIN q : q[i].type = "_ack" => a \in connectedHubs'[b]
             /\ \A i, j \in DOMAIN q :
                  (q[i].type = "_ack" /\ q[j].type = "_reply"
                   /\ q[i].parent = q[j].parent) => i < j]_vars

\* The sender has just been handed the _ack of its handshake; the reply to
\* the handshake is the next frame from the receiver, which has recorded it.
C32_Witness ==
  /\ hev.op = "deliverRouter" /\ hev.msg.type = "_ack"
  /\ hev.node \in connectedHubs[hev.msg.src]
  /\ routerNet[<<hev.msg.src, hev.node>>] # <<>>
  /\ Head(routerNet[<<hev.msg.src, hev.node>>]).type = "_reply"
  /\ Head(routerNet[<<hev.msg.src, hev.node>>]).parent = hev.msg.parent

\* The deadline node d keeps for peer q, NoTime when it keeps none.
Deadline(f, q) == IF q \in DOMAIN f THEN f[q] ELSE NoTime

C34_TypeIndexConsistent ==
  \A t \in DOMAIN typeIndex :
    \A id \in getByMessageType(ClusterLocal, t) :
      id \in DOMAIN idIndex /\ t \in idIndex[id]

(***************************************************************************)
(* Properties of the hub's inbound frames, checked under FrameSpec.        *)
(***************************************************************************)
\* C35: an inbound frame that is malformed JSON, is not an object or lacks an
\* id is dropped: the handler returns normally, no callback runs, the
\* connected set and the pending tables are as before, and an error envelope
\* (BadPayload) is sent back to the sender on the router socket.
C35_BadFrameDropped ==
  [][\A d \in Hubs :
       (hev'.op = "deliverFrame" /\ hev'.node = d) =>
         /\ ~hev'.threw
         /\ hev'.cbs = <<>>
         /\ connectedHubs'[d] = connectedHubs[d]
         /\ pendingAcks'[d] = pendingAcks[d]
         /\ hubReplies'[d] = hubReplies[d]
         /\ \E i \in DOMAIN hev'.sent :
              /\ hev'.sent[i].to = hev'.id
              /\ hev'.sent[i].msg.type = "error"]_vars

(***************************************************************************)
(* Properties of the hub's replies, checked under ReplySpec.               *)
(***************************************************************************)
\* C36: reply(original, data, cb) with a callback emits a _reply with parent
\* = original's id and files cb in the pending replies (and an entry in the
\* pending acks) under the id of that _reply, leaving the entry under
\* original's id as it was; and a _reply dispatched later whose parent has an
\* entry invokes the callbacks filed there.
C36_ReplyFiledUnderOwnId ==
  [][\A h \in Hubs :
       /\ (hev'.op \in {"reply", "replyOld"} /\ hev'.node = h /\ hev'.cb # "") =>
            /\ \E i \in DOMAIN hev'.sent :
                 LET r == hev'.sent[i].msg
                 IN /\ r.type = "_reply" /\ r.parent = hev'.msg.id
                    /\ r.id \in DOMAIN hubReplies'[h]
                    /\ \E j \in DOMAIN hubReplies'[h][r.id] :
                         hubReplies'[h][r.id][j].cb = hev'.cb
                    /\ r.id \in pendingAcks'[h]
            /\ hev'.msg.id \in DOMAIN hubReplies'[h] =>
                 /\ hev'.msg.id \in DOMAIN hubReplies[h]
                 /\ hubReplies'[h][hev'.msg.id] = hubReplies[h][hev'.msg.id]
       /\ (/\ IsDelivery(hev') /\ hev'.node = h /\ hev'.msg.type = "_reply"
           /\ hev'.msg.parent \in DOMAIN hubReplies[h]) =>
            \A j \in DOMAIN hubReplies[h][hev'.msg.parent] :
              hubReplies[h][hev'.msg.parent][j].kind = "user" =>
                \E k \in DOMAIN hev'.cbs :
                  hev'.cbs[k].cb = hubReplies[h][hev'.msg.parent][j].cb]_vars

(***************************************************************************)
(* Properties of the node's cluster view, checked under JoinSpec.          *)
(***************************************************************************)
\* C37: a node's own id is never in its own cluster view or under any type of
\* its type index, whatever descriptors reach it through join, _join,
\* _connect and the replies to them (a returned cluster that lists the node
\* itself included), and no node sends a _connect to itself.
C37_NeverOwnPeer ==
  [][\A n \in Nodes :
       /\ ~InCluster(cluster'[n], n)
       /\ \A t \in DOMAIN clusterByMsg'[n] :
            \A i \in DOMAIN clusterByMsg'[n][t] : clusterByMsg'[n][t][i] # n
       /\ n \notin connectedTo'[n]
       /\ ev'.node = n =>
            \A i \in DOMAIN ev'.sent :
              ~(ev'.sent[i].to = n /\ ev'.sent[i].msg.type = "_connect")]_vars

\* A has been handed the reply to its _join, whose cluster lists A itself
\* and another peer, and has sent that peer a _connect.
C37_Witness ==
  /\ ev.op = "deliver" /\ ev.node = "A" /\ ev.msg.type = "_reply"
  /\ ev.msg.data.k = "view"
  /\ InCluster(ev.msg.data.cluster, "A")
  /\ \E i \in DOMAIN ev.sent : ev.sent[i].msg.type = "_connect"
  /\ ~InCluster(cluster["A"], "A")

(***************************************************************************)
(* Properties of concurrent requests of a hub, checked under HubSpec.      *)
(***************************************************************************)
\* Hub h has called handshake(o) and has not been handed the reply yet.
HandshakePending(h, o) ==
  \E k \in DOMAIN hubReplies[h] :
    \E j \in DOMAIN hubReplies[h][k] :
      hubReplies[h][k][j].kind = "handshake" /\ hubReplies[h][k][j].hub = o

\* C38: a handshake(o) called on a bound hub while the reply to an earlier
\* handshake(o) has not arrived is rejected with an Error through the callback and sends no
\* second _handshake to o.
C38_SecondHandshakeRejected ==
  [][\A h \in Hubs, o \in Hubs :
       (/\ hev'.op = "handshake" /\ hev'.node = h /\ hev'.id = o
        /\ hubState[h] = "BOUND"
        /\ HandshakePending(h, o)) =>
         /\ hev'.req = <<>>
         /\ ticks'[h] = Append(ticks[h], [cb |-> hev'.cb, err |-> ErrTwice])]_vars

(***************************************************************************)
(* Properties of unmatched answers, checked under FrameSpec.               *)
(***************************************************************************)
\* C39: the dispatch of a _reply whose parent has no pending-reply entry, and
\* of an _ack whose parent has no pending-ack entry, invokes no callback and
\* leaves the pending replies, the pending acks and the connected set of the
\* hub as they were.
C39_UnmatchedAnswerIgnored ==
  [][\A h \in Hubs :
       (/\ IsDelivery(hev') /\ hev'.node = h
        /\ \/ hev'.msg.type = "_reply" /\ hev'.msg.parent \notin DOMAIN hubReplies[h]
           \/ hev'.msg.type = "_ack" /\ hev'.msg.parent \notin pendingAcks[h]) =>
         /\ hev'.cbs = <<>>
         /\ ~hev'.threw
         /\ hubReplies'[h] = hubReplies[h]
         /\ pendingAcks'[h] = pendingAcks[h]
         /\ acksByTime'[h] = acksByTime[h]
         /\ connectedHubs'[h] = connectedHubs[h]]_vars

\* A hub with nothing pending has been handed an _ack and then a _reply
\* (the answers to a _handshake that carried no id).
C39_Witness ==
  /\ IsDelivery(hev) /\ hev.msg.type = "_reply"
  /\ hev.msg.parent \notin DOMAIN hubReplies[hev.node]
  /\ hev.msg.parent \notin pendingAcks[hev.node]
  /\ hev.msg.src \notin connectedHubs[hev.node]
  /\ hev.cbs = <<>>

(***************************************************************************)
(* Properties of concurrent requests of a node, checked under Spec.        *)
(***************************************************************************)
\* C40: every request with a callback, direct (sendTo) or broadcast
\* (sendAll), is filed in the pending replies under the id of its own
\* message: a sendTo or sendAll changes no entry but the one under the id of
\* the message it builds, and a sendAll with a callback leaves its callback
\* filed there.
C40_FiledUnderOwnId ==
  [][\A n \in Nodes :
       (ev'.op \in {"sendTo", "sendAll"} /\ ev'.node = n) =>
         LET own == <<n, nextId[n]>>
         IN /\ \A k \in DOMAIN pendingReplies'[n] :
                 (\/ k \notin DOMAIN pendingReplies[n]
                  \/ pendingReplies'[n][k] # pendingReplies[n][k]) => k = own
            /\ (ev'.op = "sendAll" /\ ev'.cb # "") =>
                 /\ own \in DOMAIN pendingReplies'[n]
                 /\ \E j \in DOMAIN pendingReplies'[n][own] :
                      pendingReplies'[n][own][j].cb = ev'.cb]_vars

=============================================================================
